---- MODULE Spec2Model ----
(***************************************************************************)
(* WebRAG: the ingestion job ledger, the submission handler, the queue and *)
(* the ingestion orchestrator, as a state machine.                         *)
(*                                                                         *)
(* Rows of url_ingestion_jobs are records; the table is a sequence whose   *)
(* index is the job id (a fresh UUID per INSERT).  Tasks of the queue are  *)
(* a sequence whose index is the task id (the AsyncResult id).             *)
(***************************************************************************)
EXTENDS Integers, Sequences, FiniteSets, TLC

VARIABLES
    ledger,     \* url_ingestion_jobs: job id -> row
    tasks,      \* queue and worker side: task id -> task (args, position, locals)
    req,        \* request-serving context: request -> handler position and locals
    points      \* vector index collection: point id -> payload

vars == <<ledger, tasks, req, points>>

----------------------------------------------------------------------------
(* Bounds *)

MaxRequests == 2

Requests == 1..MaxRequests

----------------------------------------------------------------------------
(* Values *)

NULL == "null"          \* SQL NULL / Python None of a text or timestamp column
TS == "ts"              \* a timestamp that is set (datetime.utcnow())
NoTask == 0             \* celery_task_id IS NULL; task ids start at 1
NoJob == 0              \* no job created by the request (job ids start at 1)
NoRow == <<>>           \* the result of a SELECT that matched nothing
NoText == <<>>          \* NULL / None of a text column; a text is a sequence
NoURL == [scheme |-> "", netloc |-> ""]

\* models.py:55  CheckConstraint ck_status_values
ck_status_values_off(status) == TRUE

ck_status_values(status) ==
    status \in {"pending", "processing", "completed", "failed"}

\* The columns of url_ingestion_jobs the model keeps (models.py:36-52);
\* id is the index of the row, created_at/updated_at are not modelled.
Columns ==
    {"url", "status", "started_at", "completed_at", "chunk_count",
     "total_tokens", "processing_time_seconds", "error_message",
     "error_traceback", "celery_task_id", "metadata"}

\* database.py:62-64 with the column defaults of models.py:36-52
NewJobRow(url, metadata) ==
    [url |-> url, status |-> "pending", started_at |-> NULL,
     completed_at |-> NULL, chunk_count |-> 0, total_tokens |-> 0,
     processing_time_seconds |-> 0, error_message |-> NoText,
     error_traceback |-> NoText, celery_task_id |-> NoTask,
     metadata |-> metadata]

\* `request.metadata or {}` (main.py:124) and `metadata or {}` (database.py:64)
metadata_or_empty(metadata) ==
    IF metadata = "None" THEN "{}" ELSE metadata

\* database.py:51-68 create_job: one INSERT; the new row's id is fresh
create_job(led, url, metadata) ==
    Append(led, NewJobRow(url, metadata_or_empty(metadata)))

----------------------------------------------------------------------------
(* Job Ledger, synchronous variant (psycopg2, one UPDATE statement) *)

\* database.py:142-151 mapping_fields
mapping_fields_NoChunkCount ==
    {"started_at", "completed_at", "error_message",
     "error_traceback", "celery_task_id", "total_tokens",
     "processing_time_seconds"}

mapping_fields ==
    {"started_at", "completed_at", "chunk_count", "error_message",
     "error_traceback", "celery_task_id", "total_tokens",
     "processing_time_seconds"}

\* The row an UPDATE built by update_job_status_sync leaves: status and the
\* named known columns are SET, every other column keeps its value.
SyncSetRow_Blind(row, status, kwargs) ==
    [c \in DOMAIN row |->
        IF c = "status" THEN status
        ELSE IF c \in DOMAIN kwargs THEN kwargs[c]
        ELSE NewJobRow(row.url, row.metadata)[c]]

SyncSetRow_DropCompletedAt(row, status, kwargs) ==
    [c \in DOMAIN row |->
        IF c = "status" THEN status
        ELSE IF c \in (mapping_fields \ {"completed_at"}) \cap DOMAIN kwargs
             THEN kwargs[c]
        ELSE row[c]]

SyncSetRow(row, status, kwargs) ==
    [c \in DOMAIN row |->
        IF c = "status" THEN status
        ELSE IF c \in (mapping_fields \cup {"metadata"}) \cap DOMAIN kwargs
             THEN kwargs[c]
        ELSE row[c]]

\* update_job_status_sync: ret is "row" (the updated row), "none" (no row
\* matched) or "raise" (the statement violated ck_status_values: rollback).
update_job_status_sync(led, job_id, status, kwargs) ==
    IF job_id \notin DOMAIN led
    THEN [ledger |-> led, ret |-> "none"]
    ELSE IF ~ck_status_values(status)
    THEN [ledger |-> led, ret |-> "raise"]
    ELSE [ledger |-> [led EXCEPT ![job_id] = SyncSetRow(@, status, kwargs)],
          ret |-> "row"]

get_job_by_id_FirstRow(led, job_id) ==
    IF job_id \in DOMAIN led THEN led[job_id]
    ELSE IF led # <<>> THEN led[1] ELSE NoRow

\* get_job_by_id_sync / get_job_by_id
get_job_by_id(led, job_id) ==
    IF job_id \in DOMAIN led THEN led[job_id] ELSE NoRow

----------------------------------------------------------------------------
(* Job Ledger, asynchronous variant (SQLAlchemy ORM session) *)

\* The attribute of the mapped object a keyword names (database.py:83-88):
\* 'metadata' goes to metadata_json (the 'metadata' column), any other key
\* is set when the object has the attribute.
OrmAttrs == Columns

\* The mapped object after job.status = status and the setattr loop.
OrmAssign(loaded, status, kwargs) ==
    [c \in DOMAIN loaded |->
        IF c = "status" THEN status
        ELSE IF c \in OrmAttrs \cap DOMAIN kwargs THEN kwargs[c]
        ELSE loaded[c]]

\* session.commit(): the unit of work emits UPDATE ... WHERE id = :id with
\* only the columns whose value differs from the value that was loaded;
\* the other columns keep whatever another transaction committed meanwhile.
OrmFlush_AllColumns(current, loaded, obj) == obj

OrmFlush(current, loaded, obj) ==
    [c \in DOMAIN current |->
        IF obj[c] # loaded[c] THEN obj[c] ELSE current[c]]

\* update_job_status, second half (database.py:82-91), after the SELECT of
\* database.py:78-81 returned `loaded`.
update_job_status_commit(led, job_id, loaded, status, kwargs) ==
    LET obj == OrmAssign(loaded, status, kwargs)
        new == OrmFlush(led[job_id], loaded, obj)
    IN  IF ~ck_status_values(new.status)
        THEN [ledger |-> led, ret |-> "raise"]
        ELSE [ledger |-> [led EXCEPT ![job_id] = new], ret |-> "row"]

----------------------------------------------------------------------------
(* Submission boundary *)

\* A submitted URL, as urlparse splits it: its scheme and its netloc.
\* Request r submits a well-formed URL of its own, or one of two
\* malformed ones.
GoodURL(r) ==
    [scheme |-> IF r % 2 = 1 THEN "https" ELSE "http", netloc |-> "example.com"]

BadURLs ==
    { [scheme |-> "ftp",   netloc |-> "example.com"],
      [scheme |-> "https", netloc |-> ""] }

URLS(r) == {GoodURL(r)} \cup BadURLs

\* The optional metadata of a submission: absent, or a dict.
Metadatas == {"None"}

\* validators.py:11-21
is_valid_url(url) ==
    url.scheme \in {"http", "https"} /\ url.netloc # ""

\* models.py:73  url: HttpUrl (request validation, answered 422)
HttpUrl(url) ==
    url.scheme \in {"http", "https"} /\ url.netloc # ""

\* main.py:112-120: the status code a submission is rejected with by the
\* request model (422) or by the handler's validation (400); 0 when it
\* passes both.
RequestOutcome_Unchecked(url) == 0

RequestOutcome(url) ==
    IF ~HttpUrl(url) THEN 422
    ELSE IF ~is_valid_url(url) THEN 400
    ELSE 0

IdleRequest ==
    [pc |-> "idle", url |-> NoURL, job |-> NoJob, job_status |-> NULL,
     task |-> NoTask, loaded |-> NoRow, resp |-> NoRow]

\* A task as send_task publishes it (main.py:132); the rest is the
\* worker's position and locals while it runs the task.
NewTask_DropsURL(job_id, url) ==
    [args |-> <<job_id, NoURL>>, pc |-> "queued", chunks |-> <<>>,
     embed_calls |-> 0, upsert_calls |-> 0, stage |-> "none",
     upsert |-> "none", fetches |-> 0, http_status |-> "none"]

NewTask(job_id, url) ==
    [args |-> <<job_id, url>>, pc |-> "queued", chunks |-> <<>>,
     embed_calls |-> 0, upsert_calls |-> 0, stage |-> "none",
     upsert |-> "none", fetches |-> 0, http_status |-> "none"]

Respond(r, code, detail) ==
    [req[r] EXCEPT !.pc = "done", !.loaded = NoRow,
                   !.resp = [code |-> code, detail |-> detail,
                             job_id |-> req[r].job,
                             status |-> req[r].job_status]]

\* main.py:118-127: validation, then create_job (one INSERT transaction,
\* which may fail).
Submit(r) ==
    /\ req[r].pc = "idle"
    /\ IF r = 1 THEN TRUE ELSE req[r - 1].pc # "idle"   \* numbered as they arrive
    /\ \E url \in URLS(r), metadata \in Metadatas, db_ok \in BOOLEAN :
         IF RequestOutcome(url) # 0 THEN
            /\ db_ok
            /\ req' = [req EXCEPT ![r] =
                          [Respond(r, RequestOutcome(url),
                                   IF RequestOutcome(url) = 400
                                   THEN "Invalid URL provided"
                                   ELSE "validation error") EXCEPT !.url = url]]
            /\ UNCHANGED ledger
         ELSE IF ~db_ok THEN
            /\ req' = [req EXCEPT ![r] =
                          [Respond(r, 500, "Failed to create job") EXCEPT !.url = url]]
            /\ UNCHANGED ledger
         ELSE
            /\ ledger' = create_job(ledger, url, metadata)
            /\ req' = [req EXCEPT ![r] =
                          [@ EXCEPT !.pc = "send_task", !.url = url,
                                    !.job = Len(ledger) + 1,
                                    !.job_status = ledger'[Len(ledger) + 1].status]]
    /\ UNCHANGED <<tasks, points>>

\* main.py:130-133: celery_app.send_task, which may raise.
SendTask(r) ==
    /\ req[r].pc = "send_task"
    /\ \E sent \in BOOLEAN :
         IF sent THEN
            /\ tasks' = Append(tasks, NewTask(req[r].job, req[r].url))
            /\ req' = [req EXCEPT ![r] =
                          [@ EXCEPT !.pc = "writeback_select",
                                    !.task = Len(tasks) + 1]]
         ELSE
            /\ req' = [req EXCEPT ![r] = [@ EXCEPT !.pc = "failed_select"]]
            /\ UNCHANGED tasks
    /\ UNCHANGED <<ledger, points>>

\* The status the handler passes at main.py:135: job.status, the value of
\* the object create_job returned.
WritebackStatus_Processing(r) == "processing"

WritebackStatus(r) == req[r].job_status

\* main.py:135, first half: the SELECT of update_job_status (may raise).
WritebackSelect(r) ==
    /\ req[r].pc = "writeback_select"
    /\ \E db_ok \in BOOLEAN :
         req' = [req EXCEPT ![r] =
                    IF db_ok
                    THEN [@ EXCEPT !.pc = "writeback_commit",
                                   !.loaded = get_job_by_id(ledger, req[r].job)]
                    ELSE [@ EXCEPT !.pc = "failed_select"]]
    /\ UNCHANGED <<ledger, tasks, points>>

\* main.py:135, second half (the commit), then the 202 of main.py:142.
WritebackCommit(r) ==
    /\ req[r].pc = "writeback_commit"
    /\ LET res == update_job_status_commit(ledger, req[r].job, req[r].loaded,
                      WritebackStatus(r), [celery_task_id |-> req[r].task])
       IN  /\ ledger' = res.ledger
           /\ req' = [req EXCEPT ![r] = Respond(r, 202, "Job accepted")]
    /\ UNCHANGED <<tasks, points>>

\* main.py:136-139, first half: the SELECT of the best-effort failed write.
\* When it raises the exception leaves the handler (main.py:343-346).
FailedSelect(r) ==
    /\ req[r].pc = "failed_select"
    /\ \E db_ok \in BOOLEAN :
         req' = [req EXCEPT ![r] =
                    IF db_ok
                    THEN [@ EXCEPT !.pc = "failed_commit",
                                   !.loaded = get_job_by_id(ledger, req[r].job)]
                    ELSE Respond(r, 500, "unhandled exception")]
    /\ UNCHANGED <<ledger, tasks, points>>

\* main.py:139-140: the commit of status failed, then the 500.
FailedCommit(r) ==
    /\ req[r].pc = "failed_commit"
    /\ LET res == update_job_status_commit(ledger, req[r].job, req[r].loaded,
                      "failed", [error_message |-> <<"enqueue", "error">>])
       IN  /\ ledger' = res.ledger
           /\ req' = [req EXCEPT ![r] =
                         Respond(r, 500, "Failed to enqueue ingestion task")]
    /\ UNCHANGED <<tasks, points>>

----------------------------------------------------------------------------
(* Content Fetcher, Cleaner, Chunker (content_processor.py) *)

\* A text is a sequence of characters (one-character strings).

\* content_processor.py:99 separators, as character sequences
Separators == << <<"\n", "\n">>, <<"\n">>, <<".", " ">>, <<" ">>, <<>> >>

Whitespace == {" ", "\n", "\t"}

IsPrefix(p, s) ==
    /\ Len(p) <= Len(s)
    /\ \A i \in 1..Len(p) : s[i] = p[i]

Drop(s, n) == SubSeq(s, n + 1, Len(s))

RECURSIVE Concat(_)
Concat(ss) == IF ss = <<>> THEN <<>> ELSE Head(ss) \o Concat(Tail(ss))

\* re.search(separator, text) for a literal, non-empty separator
Occurs(sep, text) ==
    \E i \in 0..(Len(text) - Len(sep)) : IsPrefix(sep, Drop(text, i))

\* re.split(separator, text): the pieces between the leftmost
\* non-overlapping matches
RECURSIVE re_split(_, _, _)
re_split(sep, text, piece) ==
    IF text = <<>> THEN <<piece>>
    ELSE IF IsPrefix(sep, text)
         THEN <<piece>> \o re_split(sep, Drop(text, Len(sep)), <<>>)
         ELSE re_split(sep, Tail(text), Append(piece, Head(text)))

\* _split_text_with_regex with keep_separator=True: each separator stays at
\* the start of the piece that follows it; empty pieces are dropped
split_text_with_regex(text, sep) ==
    LET pieces == IF sep = <<>>
                  THEN [i \in 1..Len(text) |-> <<text[i]>>]
                  ELSE LET raw == re_split(sep, text, <<>>)
                       IN  [i \in 1..Len(raw) |->
                               IF i = 1 THEN raw[1] ELSE sep \o raw[i]]
    IN  SelectSeq(pieces, LAMBDA p : p # <<>>)

RECURSIVE lstrip(_)
lstrip(s) == IF s # <<>> /\ Head(s) \in Whitespace THEN lstrip(Tail(s)) ELSE s

RECURSIVE rstrip(_)
rstrip(s) ==
    IF s # <<>> /\ s[Len(s)] \in Whitespace
    THEN rstrip(SubSeq(s, 1, Len(s) - 1)) ELSE s

strip(s) == lstrip(rstrip(s))

\* _join_docs with the empty join separator and strip_whitespace=True;
\* <<>> stands for None
join_docs(docs) == strip(Concat(docs))

SumLen(docs) == Len(Concat(docs))

\* the while loop of _merge_splits: pop from the front of current_doc
RECURSIVE pop_front(_, _, _, _)
pop_front(current_doc, len_d, chunk_size, chunk_overlap) ==
    LET total == SumLen(current_doc)
    IN  IF total > chunk_overlap \/ (total + len_d > chunk_size /\ total > 0)
        THEN pop_front(Tail(current_doc), len_d, chunk_size, chunk_overlap)
        ELSE current_doc

\* _merge_splits with separator "" (keep_separator=True)
RECURSIVE merge_splits(_, _, _, _, _)
merge_splits(splits, current_doc, docs, chunk_size, chunk_overlap) ==
    IF splits = <<>>
    THEN IF join_docs(current_doc) # <<>>
         THEN Append(docs, join_docs(current_doc)) ELSE docs
    ELSE LET d == Head(splits)
             total == SumLen(current_doc)
             over == total + Len(d) > chunk_size /\ Len(current_doc) > 0
             docs2 == IF over /\ join_docs(current_doc) # <<>>
                      THEN Append(docs, join_docs(current_doc)) ELSE docs
             cur2 == IF over
                     THEN pop_front(current_doc, Len(d), chunk_size, chunk_overlap)
                     ELSE current_doc
         IN  merge_splits(Tail(splits), Append(cur2, d), docs2,
                          chunk_size, chunk_overlap)

\* RecursiveCharacterTextSplitter._split_text
RECURSIVE split_text(_, _, _, _)
RECURSIVE split_loop(_, _, _, _, _, _)

split_loop(splits, good, final, new_separators, chunk_size, chunk_overlap) ==
    IF splits = <<>>
    THEN IF good # <<>>
         THEN final \o merge_splits(good, <<>>, <<>>, chunk_size, chunk_overlap)
         ELSE final
    ELSE LET s == Head(splits)
         IN  IF Len(s) < chunk_size
             THEN split_loop(Tail(splits), Append(good, s), final,
                             new_separators, chunk_size, chunk_overlap)
             ELSE LET flushed == IF good # <<>>
                                 THEN final \o merge_splits(good, <<>>, <<>>,
                                                  chunk_size, chunk_overlap)
                                 ELSE final
                      more == IF new_separators = <<>>
                              THEN <<s>>
                              ELSE split_text(s, new_separators,
                                              chunk_size, chunk_overlap)
                  IN  split_loop(Tail(splits), <<>>, flushed \o more,
                                 new_separators, chunk_size, chunk_overlap)

\* the index of the first separator that is "" or occurs in the text
RECURSIVE pick_separator(_, _, _)
pick_separator(text, separators, i) ==
    IF i >= Len(separators) THEN Len(separators)
    ELSE IF separators[i] = <<>> \/ Occurs(separators[i], text) THEN i
    ELSE pick_separator(text, separators, i + 1)

split_text(text, separators, chunk_size, chunk_overlap) ==
    LET i == pick_separator(text, separators, 1)
        separator == separators[i]
        new_separators ==
            IF separator = <<>> THEN <<>>
            ELSE SubSeq(separators, i + 1, Len(separators))
    IN  split_loop(split_text_with_regex(text, separator), <<>>, <<>>,
                   new_separators, chunk_size, chunk_overlap)

chunk_text_Unsplit(text, chunk_size, chunk_overlap) ==
    IF strip(text) = <<>> THEN <<>> ELSE <<strip(text)>>

chunk_text(text, chunk_size, chunk_overlap) ==
    split_text(text, Separators, chunk_size, chunk_overlap)


\* content_processor.py:52-55: the status code of the response decides
FetchErrorMessage_NoStatus(status) == <<"Failed", "to", "fetch">>

FetchErrorMessage(status) ==
    <<"Failed", "to", "fetch", "HTTP", status>>

\* content_processor.py:45-58: one requests.get; `status` is the status
\* code of the response, or "timeout" when requests.get itself raises.
\* The error is logged and re-raised; nothing is retried.
fetch_url_content_sync(status, page) ==
    IF status = "timeout"
    THEN [ret |-> "raise", exc |-> <<"Read", "timed", "out">>,
          html |-> <<>>, requests |-> 1, status |-> status]
    ELSE IF status # "200"
    THEN [ret |-> "raise", exc |-> FetchErrorMessage(status),
          html |-> <<>>, requests |-> 1, status |-> status]
    ELSE [ret |-> "return", exc |-> NoText, html |-> page, requests |-> 1,
          status |-> status]

\* content_processor.py:69 the tags clean_html decomposes
RemovedTags == {"script", "style", "nav", "footer", "header", "noscript"}

\* the words of str.split(): maximal runs of non-whitespace characters
RECURSIVE str_split(_, _)
str_split(s, word) ==
    IF s = <<>> THEN (IF word = <<>> THEN <<>> ELSE <<word>>)
    ELSE IF Head(s) \in Whitespace
         THEN (IF word = <<>> THEN <<>> ELSE <<word>>) \o str_split(Tail(s), <<>>)
         ELSE str_split(Tail(s), Append(word, Head(s)))

RECURSIVE str_join(_, _)
str_join(sep, ws) ==
    IF ws = <<>> THEN <<>>
    ELSE IF Len(ws) = 1 THEN ws[1]
    ELSE ws[1] \o sep \o str_join(sep, Tail(ws))

\* content_processor.py:66-76: a page is a sequence of elements
\* [tag, text]; the text of the kept elements is joined by " " and its
\* whitespace collapsed.
clean_html(page) ==
    LET kept == SelectSeq(page, LAMBDA el : el.tag \notin RemovedTags)
        body == str_join(<<" ">>, [i \in 1..Len(kept) |-> kept[i].text])
    IN  str_join(<<" ">>, str_split(body, <<>>))

\* content_processor.py:107-110: int(words * 1.3)
estimate_tokens(text) ==
    (Len(str_split(text, <<>>)) * 13) \div 10

----------------------------------------------------------------------------
(* Embedding Client (embeddings.py) *)

OK == <<"OK">>          \* the wrapped call returned

\* str.lower() on the words error messages are made of
Lower(w) ==
    CASE w = "Rate" -> "rate"
      [] w = "Limit" -> "limit"
      [] w = "Quota" -> "quota"
      [] w = "Exceeded" -> "exceeded"
      [] w = "RESOURCE" -> "resource"
      [] w = "EXHAUSTED" -> "exhausted"
      [] w = "Already" -> "already"
      [] w = "Exists" -> "exists"
      [] OTHER -> w

lower(msg) == [i \in 1..Len(msg) |-> Lower(msg[i])]

\* `sub in s` at word granularity
Contains(sub, s) == Occurs(sub, s)

\* embeddings.py:41-42
is_rate_limit(exc) ==
    LET error_str == lower(exc)
    IN  \/ Contains(<<"429">>, error_str)
        \/ Contains(<<"rate", "limit">>, error_str)
        \/ Contains(<<"quota", "exceeded">>, error_str)
        \/ Contains(<<"resource", "exhausted">>, error_str)

RateLimitAttempts == 5      \* embeddings.py:46
OtherAttempts == 3          \* embeddings.py:53

\* embeddings.py:33-57.  outcomes[i] is what the i-th invocation of func
\* does: OK, or the message of the exception it raises.  The result tells
\* whether the loop returned or raised, how often func ran and the seconds
\* slept.
RECURSIVE with_retries_from(_, _, _, _, _)
with_retries_from(outcomes, calls, attempt, backoff, slept) ==
    LET exc == outcomes[calls + 1]
    IN  IF exc = OK
        THEN [ret |-> "return", exc |-> NoText, calls |-> calls + 1,
              slept |-> slept]
        ELSE IF attempt + 1 >= (IF is_rate_limit(exc) THEN RateLimitAttempts
                                                        ELSE OtherAttempts)
        THEN [ret |-> "raise", exc |-> exc, calls |-> calls + 1,
              slept |-> slept]
        ELSE with_retries_from(outcomes, calls + 1, attempt + 1,
                               backoff * 2, slept + backoff)

\* the same loop with the rate-limit budget for every error
RECURSIVE with_retries_OneBudget_from(_, _, _, _, _)
with_retries_OneBudget_from(outcomes, calls, attempt, backoff, slept) ==
    LET exc == outcomes[calls + 1]
    IN  IF exc = OK
        THEN [ret |-> "return", exc |-> NoText, calls |-> calls + 1,
              slept |-> slept]
        ELSE IF attempt + 1 >= RateLimitAttempts
        THEN [ret |-> "raise", exc |-> exc, calls |-> calls + 1,
              slept |-> slept]
        ELSE with_retries_OneBudget_from(outcomes, calls + 1, attempt + 1,
                                         backoff * 2, slept + backoff)

with_retries_OneBudget(outcomes) ==
    with_retries_OneBudget_from(outcomes, 0, 0, 1, 0)

\* the same loop sleeping one second before every retry
with_retries_FixedBackoff(outcomes) ==
    LET r == with_retries_from(outcomes, 0, 0, 1, 0)
    IN  [r EXCEPT !.slept = r.calls - 1]

with_retries_swallow(outcomes) ==
    LET r == with_retries_from(outcomes, 0, 0, 1, 0)
    IN  [r EXCEPT !.ret = "return"]

with_retries(outcomes) == with_retries_from(outcomes, 0, 0, 1, 0)

\* The most invocations one _with_retries call can make.
MaxCalls == IF RateLimitAttempts > OtherAttempts THEN RateLimitAttempts
            ELSE OtherAttempts

\* What the embedding service does on each invocation, in the ingestion
\* runs of the model.
EmbedOutcomes ==
    { OK, <<"429", "Too", "Many", "Requests">>, <<"Connection", "reset">> }

\* Config default of EMBEDDING_DIMENSIONS (config.py:21), which main.py:176
\* passes to the client as output_dimensionality.
EMBEDDING_DIMENSIONS == 1536

\* Values the deployment may configure for EMBEDDING_DIMENSIONS.
Dimensions == {EMBEDDING_DIMENSIONS, EMBEDDING_DIMENSIONS \div 2}

\* What genai.embed_content answers when it returns: a dict with an
\* "embedding" of the requested length, of another length or empty, or a
\* dict without that key.  A vector is represented by its length.
EmbedResponses(output_dimensionality) ==
    { [has_embedding |-> TRUE, len |-> output_dimensionality],
      [has_embedding |-> TRUE, len |-> 2 * output_dimensionality],
      [has_embedding |-> TRUE, len |-> 0],
      [has_embedding |-> FALSE, len |-> 0] }

\* embeddings.py:77-90: the response of the retried call, then
\* resp.get("embedding", []); r is the result of _with_retries.
embed_query(r, response, output_dimensionality) ==
    IF r.ret = "raise"
    THEN [ret |-> "raise", exc |-> r.exc, vector |-> 0]
    ELSE [ret |-> "return", exc |-> NoText,
          vector |-> IF response.has_embedding THEN response.len ELSE 0]

\* embeddings.py:59-75: one vector per text when the call returns
embed_documents(texts, r) ==
    [ret |-> r.ret, exc |-> r.exc, calls |-> r.calls,
     vectors |-> IF r.ret = "return"
                 THEN [i \in 1..Len(texts) |-> "vec"] ELSE <<>>]

----------------------------------------------------------------------------
(* Vector Index (vectorstore.py) *)

\* Values hash(job_id) takes for a job id (str hashes are salted per
\* process, so one job id has a different hash in another worker process).
\* Different job ids have different hashes; those of the first line agree
\* modulo 1000000.
JobHashes(job_id) ==
    {5 + 1000000 * (job_id - 1), 1000006 + job_id}

\* hash(job_id) in two worker processes, with no two job ids agreeing
\* modulo 1000000.
ProcessHashes(job_id) ==
    {1000006 + job_id, 2000016 + 3 * job_id}

Min(a, b) == IF a < b THEN a ELSE b

\* vectorstore.py:50-64: the points of one add_documents call, as a map
\* from point id to payload; zip stops at the shorter list.
BuildPoints(chunks, vectors, source_url, job_id, h) ==
    LET n == Min(Len(chunks), Len(vectors))
        job_hash == h % 1000000
        point_id(idx) == job_hash * 10000 + idx
    IN  [id \in {point_id(idx) : idx \in 0..(n - 1)} |->
            LET idx == id - job_hash * 10000
            IN  [text |-> chunks[idx + 1], source_url |-> source_url,
                 job_id |-> job_id, chunk_index |-> idx]]

\* vectorstore.py:66-71: client.upsert either stores every point
\* (overwriting equal ids; up = "ok") or raises and stores none
\* (up = "error").
add_documents_swallow(index, chunks, vectors, source_url, job_id, h, up) ==
    [index |-> IF up = "ok"
               THEN BuildPoints(chunks, vectors, source_url, job_id, h) @@ index
               ELSE index,
     ret |-> "return",
     count |-> Min(Len(chunks), Len(vectors))]

add_documents(index, chunks, vectors, source_url, job_id, h, up) ==
    IF up = "ok"
    THEN [index |-> BuildPoints(chunks, vectors, source_url, job_id, h) @@ index,
          ret |-> "return", count |-> Min(Len(chunks), Len(vectors))]
    ELSE [index |-> index, ret |-> "raise", count |-> 0]

----------------------------------------------------------------------------
(* Ingestion Orchestrator: the task process_url_ingestion(job_id, url) *)

\* Scaled stand-ins for CHUNK_SIZE and CHUNK_OVERLAP of config.py:44-45:
\* the pages of the model are a few characters long.
ModelChunkSize == 4
ModelChunkOverlap == 1

EmptyPage == <<>>
ScriptOnlyPage == << [tag |-> "script", text |-> <<"x">>] >>
OneChunkPage ==
    << [tag |-> "p", text |-> <<"a", " ">>],
       [tag |-> "script", text |-> <<"x">>],
       [tag |-> "p", text |-> <<"\n", "b">>] >>
TwoChunkPage ==
    << [tag |-> "p", text |-> <<"a", " ", "b", " ", "c", " ", "d">>] >>

\* What one call of embed_documents can do, over every behaviour of the
\* embedding service during its retries.
EmbedRuns ==
    { with_retries(outcomes) : outcomes \in [1..MaxCalls -> EmbedOutcomes] }

\* The environment of a run of the orchestrator: the HTTP status codes of
\* the fetch, the pages fetched, the stage that raises, the behaviours of
\* the embedding call, the hash values and whether the index accepts the
\* upsert.
FullWorld ==
    [statuses |-> {"200", "404", "500", "timeout"},
     pages |-> {EmptyPage, ScriptOnlyPage, OneChunkPage, TwoChunkPage},
     raises |-> {"none", "clean", "chunk"},
     runs |-> EmbedRuns,
     hashes |-> [j \in Requests |-> JobHashes(j)],
     ups |-> {"ok", "error"}]

\* The environment while submissions race with the worker: the fetch
\* answers 200 or 404 and the later stages succeed.
CalmWorld ==
    [statuses |-> {"200", "404"},
     pages |-> {TwoChunkPage},
     raises |-> {"none"},
     runs |-> {r \in EmbedRuns : r.ret = "return" /\ r.calls = 1},
     hashes |-> [j \in Requests |-> {1000006 + j}],
     ups |-> {"ok"}]

SumTokens(chunks) ==
    LET RECURSIVE sum(_)
        sum(i) == IF i = 0 THEN 0 ELSE estimate_tokens(chunks[i]) + sum(i - 1)
    IN  sum(Len(chunks))

FailedFields(exc) ==
    [error_message |-> exc, error_traceback |-> <<"Traceback">> \o exc,
     completed_at |-> TS]

JobOf(t) == tasks[t].args[1]

\* The orchestrator's terminal failure write.
TaskFail(t, stage, exc, f, embed_calls, upsert_calls, up) ==
    /\ ledger' = update_job_status_sync(ledger, JobOf(t), "failed",
                                        FailedFields(exc)).ledger
    /\ tasks' = [tasks EXCEPT ![t] =
                    [@ EXCEPT !.pc = "failed", !.stage = stage,
                              !.embed_calls = embed_calls,
                              !.upsert_calls = upsert_calls,
                              !.upsert = up,
                              !.fetches = f.requests,
                              !.http_status = f.status]]
    /\ UNCHANGED points

\* On dequeue: pending -> processing, recording started_at.
TaskStart(t) ==
    /\ tasks[t].pc = "queued"
    /\ ledger' = update_job_status_sync(ledger, JobOf(t), "processing",
                                        [started_at |-> TS]).ledger
    /\ tasks' = [tasks EXCEPT ![t] = [@ EXCEPT !.pc = "processing"]]
    /\ UNCHANGED <<req, points>>

\* Fetch -> Clean -> Chunk, then embed all chunks (document mode), then
\* upsert all chunk vectors and payloads.  An exception in any stage, or
\* zero segments, fails the job; the stages after it do not run.
TaskRun(t, W) ==
    /\ tasks[t].pc = "processing"
    /\ \E status \in W.statuses, page \in W.pages :
         LET f == fetch_url_content_sync(status, page)
         IN  IF f.ret = "raise" THEN
                TaskFail(t, "fetch", f.exc, f, 0, 0, "none")
             ELSE \E stage_raises \in W.raises :
                LET text == clean_html(f.html)
                    chunks == chunk_text(text, ModelChunkSize, ModelChunkOverlap)
                IN  IF stage_raises = "clean" THEN
                       TaskFail(t, "clean", <<"parser", "error">>, f, 0, 0, "none")
                    ELSE IF stage_raises = "chunk" THEN
                       TaskFail(t, "chunk", <<"import", "error">>, f, 0, 0, "none")
                    ELSE IF chunks = <<>> THEN
                       TaskFail(t, "empty", <<"No", "content">>, f, 0, 0, "none")
                    ELSE \E run \in W.runs :
                       LET e == embed_documents(chunks, run)
                       IN  IF e.ret = "raise" THEN
                              TaskFail(t, "embed", e.exc, f, 1, 0, "none")
                           ELSE \E h \in W.hashes[JobOf(t)], up \in W.ups :
                              LET r == add_documents(points, chunks, e.vectors,
                                           tasks[t].args[2], JobOf(t), h, up)
                              IN  IF r.ret = "raise" THEN
                                     TaskFail(t, "upsert", <<"upsert", "failed">>,
                                              f, 1, 1, up)
                                  ELSE
                                     /\ points' = r.index
                                     /\ tasks' = [tasks EXCEPT ![t] =
                                            [@ EXCEPT !.pc = "complete",
                                                      !.chunks = chunks,
                                                      !.embed_calls = 1,
                                                      !.upsert_calls = 1,
                                                      !.upsert = up,
                                                      !.fetches = f.requests,
                                                      !.http_status = f.status]]
                                     /\ UNCHANGED ledger
    /\ UNCHANGED req

\* On success: completed, with completed_at, chunk_count, total_tokens and
\* processing_time_seconds.
TaskComplete(t) ==
    /\ tasks[t].pc = "complete"
    /\ ledger' = update_job_status_sync(ledger, JobOf(t), "completed",
                    [completed_at |-> TS,
                     chunk_count |-> Len(tasks[t].chunks),
                     total_tokens |-> SumTokens(tasks[t].chunks),
                     processing_time_seconds |-> 1]).ledger
    /\ tasks' = [tasks EXCEPT ![t] = [@ EXCEPT !.pc = "completed"]]
    /\ UNCHANGED <<req, points>>

----------------------------------------------------------------------------
(* Spec: concurrent submissions racing with the worker; every task is     *)
(* delivered once.                                                         *)

Init ==
    /\ ledger = <<>>
    /\ tasks = <<>>
    /\ req = [r \in Requests |-> IdleRequest]
    /\ points = <<>>

Next ==
    \/ \E r \in Requests :
         \/ Submit(r)
         \/ SendTask(r)
         \/ WritebackSelect(r)
         \/ WritebackCommit(r)
         \/ FailedSelect(r)
         \/ FailedCommit(r)
    \/ \E t \in DOMAIN tasks :
         \/ TaskStart(t)
         \/ TaskRun(t, CalmWorld)
         \/ TaskComplete(t)

Spec == Init /\ [][Next]_vars

----------------------------------------------------------------------------
(* SpecLive: Spec under fair scheduling.  The event loop keeps running a   *)
(* request's handler until it has answered, and the queue and the worker   *)
(* keep delivering and running every enqueued task until it has ended.     *)

HandlerStep(r) ==
    \/ Submit(r)
    \/ SendTask(r)
    \/ WritebackSelect(r)
    \/ WritebackCommit(r)
    \/ FailedSelect(r)
    \/ FailedCommit(r)

WorkerStep(t) ==
    /\ t \in DOMAIN tasks
    /\ \/ TaskStart(t)
       \/ TaskComplete(t)

\* TaskRun(t, W) is enabled exactly when task t is in its pipeline: it has
\* an outcome for every fetch status and it always changes the task.
RunEnabled(t) == t \in DOMAIN tasks /\ tasks[t].pc = "processing"

\* Weak fairness of the pipeline step, WF_vars(TaskRun(t, CalmWorld)),
\* written out with RunEnabled as its enabling condition.
RunFairness(t) ==
    \/ []<>~RunEnabled(t)
    \/ []<><<t \in DOMAIN tasks /\ TaskRun(t, CalmWorld)>>_vars

SpecLive ==
    /\ Init
    /\ [][Next]_vars
    /\ \A r \in Requests :
          WF_vars(HandlerStep(r)) /\ WF_vars(WorkerStep(r)) /\ RunFairness(r)

----------------------------------------------------------------------------
(* SpecIngest: the worker alone, after the submissions were accepted, in  *)
(* the full environment.                                                   *)

InitIngest ==
    /\ ledger = [j \in Requests |->
                    [NewJobRow(GoodURL(j), "{}") EXCEPT !.celery_task_id = j]]
    /\ tasks = [j \in Requests |-> NewTask(j, GoodURL(j))]
    /\ req = [r \in Requests |->
                 [IdleRequest EXCEPT !.pc = "done", !.url = GoodURL(r),
                     !.job = r, !.job_status = "pending", !.task = r,
                     !.resp = [code |-> 202, detail |-> "Job accepted",
                               job_id |-> r, status |-> "pending"]]]
    /\ points = <<>>

NextIngest ==
    \E t \in DOMAIN tasks :
        \/ TaskStart(t)
        \/ TaskRun(t, FullWorld)
        \/ TaskComplete(t)

SpecIngest == InitIngest /\ [][NextIngest]_vars

----------------------------------------------------------------------------
(* SpecLedger: the Job Ledger API on its own.  Any caller may create jobs  *)
(* and call either update variant with any job id, any status string and   *)
(* any keywords; an asynchronous update (SELECT, then commit) races with    *)
(* synchronous ones.                                                        *)

MaxRows == 2

StatusInputs == {"pending", "processing", "completed", "failed", "cancelled"}

KwargsInputs ==
    { <<>>,
      [completed_at |-> TS, url |-> GoodURL(2), bogus |-> 1],
      [celery_task_id |-> 7, metadata |-> "{k:v}"] }

\* The call returns to its caller: what was called, whether the ledger
\* held a row of the job id it was called with, and what it answered.
ApiReturn(r, op, job_id, ret) ==
    [req[r] EXCEPT !.pc = "idle", !.loaded = NoRow, !.job = NoJob,
                   !.resp = [ret |-> ret, op |-> op,
                             known |-> job_id \in DOMAIN ledger]]

ApiCreate(r) ==
    /\ req[r].pc = "idle"
    /\ Len(ledger) < MaxRows
    /\ ledger' = create_job(ledger, GoodURL(1), "None")
    /\ req' = [req EXCEPT ![r] = ApiReturn(r, "create", Len(ledger), "row")]
    /\ UNCHANGED <<tasks, points>>

ApiUpdateSync(r) ==
    /\ req[r].pc = "idle"
    /\ \E job_id \in 1..(MaxRows + 1), status \in StatusInputs,
          kwargs \in KwargsInputs :
         LET res == update_job_status_sync(ledger, job_id, status, kwargs)
         IN  /\ ledger' = res.ledger
             /\ req' = [req EXCEPT ![r] =
                           ApiReturn(r, "update_sync", job_id, res.ret)]
    /\ UNCHANGED <<tasks, points>>

\* update_job_status up to its SELECT (database.py:78-81)
ApiUpdateSelect(r) ==
    /\ req[r].pc = "idle"
    /\ \E job_id \in 1..(MaxRows + 1) :
         LET job == get_job_by_id(ledger, job_id)
         IN  req' = [req EXCEPT ![r] =
                        IF job = NoRow THEN ApiReturn(r, "update", job_id, "none")
                        ELSE [@ EXCEPT !.pc = "api_commit", !.job = job_id,
                                       !.loaded = job]]
    /\ UNCHANGED <<ledger, tasks, points>>

\* update_job_status from the assignment to the commit (database.py:82-91)
ApiUpdateCommit(r) ==
    /\ req[r].pc = "api_commit"
    /\ \E status \in StatusInputs, kwargs \in KwargsInputs :
         LET res == update_job_status_commit(ledger, req[r].job,
                                             req[r].loaded, status, kwargs)
         IN  /\ ledger' = res.ledger
             /\ req' = [req EXCEPT ![r] =
                           ApiReturn(r, "update", req[r].job, res.ret)]
    /\ UNCHANGED <<tasks, points>>

\* database.py:131-174: a synchronous update by another caller (the
\* worker) while the asynchronous update of request r is between its
\* SELECT and its commit (one such update per asynchronous update).
ApiUpdateMeanwhile(r) ==
    /\ req[r].pc = "api_commit"
    /\ req[r].loaded = ledger[req[r].job]
    /\ \E status \in StatusInputs, kwargs \in KwargsInputs :
         ledger' = update_job_status_sync(ledger, req[r].job, status, kwargs).ledger
    /\ UNCHANGED <<tasks, req, points>>

\* database.py:94-98 and 184-196: get_job_by_id and get_job_by_id_sync
\* answer the row of the id, or None.
ApiGet(r) ==
    /\ req[r].pc = "idle"
    /\ \E job_id \in 1..(MaxRows + 1), op \in {"get", "get_sync"} :
         LET job == get_job_by_id(ledger, job_id)
         IN  req' = [req EXCEPT ![r] =
                        ApiReturn(r, op, job_id,
                                  IF job = NoRow THEN "none" ELSE "row")]
    /\ UNCHANGED <<ledger, tasks, points>>

\* main.py:264-280: GET /status/{job_id} answers 404 when the ledger has
\* no row of the id, else the row's fields.
get_status(led, job_id) ==
    LET job == get_job_by_id(led, job_id)
    IN  IF job = NoRow THEN "404" ELSE "200"

ApiStatus(r) ==
    /\ req[r].pc = "idle"
    /\ \E job_id \in 1..(MaxRows + 1) :
         req' = [req EXCEPT ![r] =
                    ApiReturn(r, "status", job_id, get_status(ledger, job_id))]
    /\ UNCHANGED <<ledger, tasks, points>>

InitLedger ==
    /\ ledger = <<>>
    /\ tasks = <<>>
    /\ req = [r \in Requests |-> IdleRequest]
    /\ points = <<>>

NextLedger ==
    \/ ApiCreate(1)
    \/ ApiUpdateSync(1)
    \/ ApiUpdateSelect(1)
    \/ ApiUpdateCommit(1)
    \/ ApiUpdateMeanwhile(1)
    \/ ApiGet(1)
    \/ ApiStatus(1)

SpecLedger == InitLedger /\ [][NextLedger]_vars

----------------------------------------------------------------------------
(* SpecRedeliver: at-least-once delivery.  The tasks of accepted jobs are  *)
(* run, and a task that has finished may be delivered again, to the same   *)
(* worker process or to another one; every run fetches the same page and   *)
(* every stage succeeds.                                                    *)

MaxDeliveries == 2

RerunWorld ==
    [statuses |-> {"200"},
     pages |-> {TwoChunkPage},
     raises |-> {"none"},
     runs |-> {r \in EmbedRuns : r.ret = "return" /\ r.calls = 1},
     hashes |-> [j \in Requests |-> ProcessHashes(j)],
     ups |-> {"ok"}]

\* the ids of the points of the index whose payload names the job
PointIdsOf(job_id) ==
    {id \in DOMAIN points : points[id].job_id = job_id}

\* The queue delivers a finished task once more; req counts the
\* deliveries of each job and keeps the job's point ids at redelivery.
Redeliver(t) ==
    /\ tasks[t].pc = "completed"
    /\ req[JobOf(t)].deliveries < MaxDeliveries
    /\ tasks' = [tasks EXCEPT ![t] = NewTask(@.args[1], @.args[2])]
    /\ req' = [req EXCEPT ![JobOf(t)] =
                  [deliveries |-> @.deliveries + 1,
                   ids |-> PointIdsOf(JobOf(t))]]
    /\ UNCHANGED <<ledger, points>>

InitRedeliver ==
    /\ ledger = [j \in Requests |->
                    [NewJobRow(GoodURL(j), "{}") EXCEPT !.celery_task_id = j]]
    /\ tasks = [j \in Requests |-> NewTask(j, GoodURL(j))]
    /\ req = [j \in Requests |-> [deliveries |-> 1, ids |-> {}]]
    /\ points = <<>>

NextRedeliver ==
    \E t \in DOMAIN tasks :
        \/ TaskStart(t)
        \/ TaskRun(t, RerunWorld)
        \/ TaskComplete(t)
        \/ Redeliver(t)

SpecRedeliver == InitRedeliver /\ [][NextRedeliver]_vars

----------------------------------------------------------------------------
(* SpecEmbed: the Embedding Client on its own.  One embed_query call      *)
(* against every behaviour of the embedding service: what each invocation *)
(* of the wrapped call does, and what the service answers if it returns.  *)

\* One more than the invocations the loop can make, so that the outcome
\* of a further attempt is always given.
RetryInputLen == MaxCalls + 1

RetryOutcomes ==
    { OK, <<"429", "Too", "Many", "Requests">>, <<"Quota", "Exceeded">>,
      <<"Connection", "reset">> }

\* embeddings.py:89: self._with_retries(_call, text)
RetryCall ==
    /\ req.pc = "call"
    /\ req' = [req EXCEPT !.pc = "retried",
                          !.retry = with_retries(req.outcomes)]
    /\ UNCHANGED <<ledger, tasks, points>>

\* embeddings.py:89-90: the exception leaves embed_query, or the response
\* is read.
EmbedQueryEnd ==
    /\ req.pc = "retried"
    /\ \E response \in EmbedResponses(req.dims) :
         req' = [req EXCEPT !.pc = "done",
                            !.response = response,
                            !.result = embed_query(req.retry, response, req.dims)]
    /\ UNCHANGED <<ledger, tasks, points>>

InitEmbed ==
    /\ ledger = <<>>
    /\ tasks = <<>>
    /\ points = <<>>
    /\ \E outcomes \in [1..RetryInputLen -> RetryOutcomes], dims \in Dimensions :
         req = [pc |-> "call", outcomes |-> outcomes, dims |-> dims,
                retry |-> NoRow, response |-> NoRow, result |-> NoRow]

NextEmbed == RetryCall \/ EmbedQueryEnd

SpecEmbed == InitEmbed /\ [][NextEmbed]_vars

----------------------------------------------------------------------------
(* Query Orchestrator: POST /query (main.py:144-261) *)

\* The vector length main.py:192 compares the query vector with.
QueryVectorLength == 1536

\* main.py:192: `not query_vector or len(query_vector) != 1536`
InvalidDimension(vector) == vector = 0 \/ vector # QueryVectorLength

\* main.py:205: `not search_results`
NoResults_Never(search_results) == FALSE

NoResults(search_results) == search_results = <<>>

\* vectorstore.py:77-85: every key of a non-empty filters dict becomes a
\* must-match condition on the payload.
MatchesFilters(payload, filters) ==
    \A k \in DOMAIN filters : k \in DOMAIN payload /\ payload[k] = filters[k]

\* the elements of a set of numbers, in ascending or descending order
RECURSIVE Ranked(_, _)
Ranked(ids, order) ==
    IF ids = {} THEN <<>>
    ELSE LET first == CHOOSE x \in ids :
                         \A y \in ids : IF order = "asc" THEN x <= y ELSE x >= y
         IN  <<first>> \o Ranked(ids \ {first}, order)

search_NoLimit(index, top_k, filters, order, outcome) ==
    IF outcome = "error"
    THEN [ret |-> "raise", results |-> <<>>]
    ELSE LET matching == {id \in DOMAIN index : MatchesFilters(index[id], filters)}
             hits == Ranked(matching, order)
         IN  [ret |-> "return",
              results |-> [i \in 1..Len(hits) |->
                              [text |-> index[hits[i]].text,
                               source_url |-> index[hits[i]].source_url,
                               score |-> 100 - i]]]

\* vectorstore.py:73-96.  The index answers at most top_k hits among the
\* points that match the filters, by descending score (`order` is the
\* similarity order of the question at hand), or the client raises.
search(index, top_k, filters, order, outcome) ==
    IF outcome = "error"
    THEN [ret |-> "raise", results |-> <<>>]
    ELSE LET matching == {id \in DOMAIN index : MatchesFilters(index[id], filters)}
             hits == SubSeq(Ranked(matching, order), 1,
                            Min(top_k, Cardinality(matching)))
         IN  [ret |-> "return",
              results |-> [i \in 1..Len(hits) |->
                              [text |-> index[hits[i]].text,
                               source_url |-> index[hits[i]].source_url,
                               score |-> 100 - i]]]

\* What model.generate_content (llm.py:100) does: it raises, or it answers
\* with a response object.  A response has candidates, each with or without
\* a finish reason, and a text attribute that holds a text, is missing, or
\* raises when read.  A finish reason is an object with an integer value
\* (`code`, <<>> when it is not a number) and a string form (`name`).
FinishReason(code, name) == [code |-> code, name |-> name]

Candidate(finish_reason) ==
    [has_finish_reason |-> TRUE, finish_reason |-> finish_reason]

BareCandidate ==
    [has_finish_reason |-> FALSE, finish_reason |-> FinishReason(<<>>, "None")]

LlmAnswer(candidates, text_attr, text) ==
    [raises |-> "none", candidates |-> candidates, text_attr |-> text_attr,
     text |-> text]

STOP == FinishReason(<<1>>, "STOP")

LlmResponses ==
    { [raises |-> "ValueError", candidates |-> <<>>, text_attr |-> "absent",
       text |-> <<>>],
      [raises |-> "Exception", candidates |-> <<>>, text_attr |-> "absent",
       text |-> <<>>],
      LlmAnswer(<<Candidate(STOP)>>, "value", <<" ", "o", "k", "\n">>),
      LlmAnswer(<<Candidate(FinishReason(<<2>>, "2"))>>, "value", <<"x">>),
      LlmAnswer(<<Candidate(FinishReason(<<>>, "SAFETY"))>>, "value", <<"x">>),
      LlmAnswer(<<Candidate(FinishReason(<<>>, "safety"))>>, "raises", <<>>),
      LlmAnswer(<<Candidate(STOP), Candidate(FinishReason(<<>>, "SAFETY"))>>,
                "value", <<"o", "k">>),
      LlmAnswer(<<>>, "value", <<"o", "k">>),
      LlmAnswer(<<BareCandidate>>, "value", <<"o", "k">>),
      LlmAnswer(<<Candidate(STOP)>>, "value", <<>>),
      LlmAnswer(<<Candidate(STOP)>>, "value", <<" ", "\n">>),
      LlmAnswer(<<Candidate(STOP)>>, "absent", <<>>),
      LlmAnswer(<<Candidate(STOP)>>, "raises", <<>>) }

\* llm.py:109
Refusal == <<"I cannot answer this question based on the provided context.">>

\* str.upper() on the string forms of finish reasons
upper(name) ==
    CASE name = "safety" -> "SAFETY"
      [] name = "stop" -> "STOP"
      [] OTHER -> name

\* llm.py:108: `finish_reason == 2 or str(finish_reason).upper() == "SAFETY"`
is_safety_block(finish_reason) ==
    finish_reason.code = <<2>> \/ upper(finish_reason.name) = "SAFETY"

\* llm.py:103-109: the safety check looks at the first candidate only.
safety_refused(response) ==
    /\ response.candidates # <<>>
    /\ response.candidates[1].has_finish_reason
    /\ is_safety_block(response.candidates[1].finish_reason)

\* llm.py:112: getattr(response, "text", "").strip()
response_text(response) ==
    strip(IF response.text_attr = "absent" THEN <<>> ELSE response.text)

generate_answer_RawText(response) ==
    IF response.raises # "none"
    THEN [ret |-> "raise", exc |-> response.raises, answer |-> <<>>]
    ELSE IF response.text_attr = "raises"
    THEN [ret |-> "raise", exc |-> "ValueError", answer |-> <<>>]
    ELSE [ret |-> "return", exc |-> "none", answer |-> response_text(response)]

\* llm.py:58-115
generate_answer(response) ==
    IF response.raises # "none"
    THEN [ret |-> "raise", exc |-> response.raises, answer |-> <<>>]
    ELSE IF safety_refused(response)
    THEN [ret |-> "return", exc |-> "none", answer |-> Refusal]
    ELSE IF response.text_attr = "raises"
    THEN [ret |-> "raise", exc |-> "ValueError", answer |-> <<>>]
    ELSE [ret |-> "return", exc |-> "none", answer |-> response_text(response)]

\* main.py:187-189, 201-203 and 214-219: the status detail of the 500 each
\* stage's except clause raises.
StageErrorDetail_CatchAll(stage, exc) == "Query processing failed"

StageErrorDetail(stage, exc) ==
    CASE stage = "embed" -> "Failed to embed question"
      [] stage = "search" -> "Vector database search failed"
      [] stage = "generate" /\ exc = "ValueError" -> "Answer generation failed"
      [] stage = "generate" /\ exc # "ValueError" ->
            "Failed to generate answer due to internal error"

\* main.py:227-228: a source text longer than 300 characters is cut to its
\* first 300 characters and "...".
SourceTextLimit == 300

source_text(txt) ==
    IF Len(txt) > SourceTextLimit
    THEN SubSeq(txt, 1, SourceTextLimit) \o <<".", ".", ".">>
    ELSE txt

\* main.py:225-235: one source per search result, in the results' order.
format_sources(search_results) ==
    [i \in 1..Len(search_results) |->
        [text |-> source_text(search_results[i].text),
         source_url |-> search_results[i].source_url,
         relevance_score |-> search_results[i].score]]

\* main.py:148 and database.py:41-48: the `db` dependency of the handler.
\* get_db_session is wrapped by asynccontextmanager, so the dependency is
\* the context manager itself; it is never entered and the handler body
\* never uses it: the ledger as resolving the dependency leaves it.
get_db_session_Rollback(led) == <<>>

get_db_session(led) == led

\* The requests of the model: top_k within 1..50 (models.py:81) and the
\* optional payload filters.
TopKs == {1, 5}

FilterInputs ==
    { <<>>, [job_id |-> 1], [source_url |-> GoodURL(2)], [job_id |-> 9] }

\* The indexes queries run against: empty, or holding the chunks of the
\* first jobs.
RECURSIVE IndexOfJobs(_)
IndexOfJobs(n) ==
    IF n = 0 THEN <<>>
    ELSE add_documents(IndexOfJobs(n - 1),
                       chunk_text(clean_html(TwoChunkPage), ModelChunkSize,
                                  ModelChunkOverlap),
                       <<"vec", "vec">>, GoodURL(n), n, 1000006 + n, "ok").index

QueryRuns ==
    {r \in EmbedRuns : r.calls = 1 \/ (r.ret = "raise" /\ r.calls = OtherAttempts)}

\* The ledgers queries run beside: one completed job per indexed job.
RECURSIVE LedgerOfJobs(_)
LedgerOfJobs(n) ==
    IF n = 0 THEN <<>>
    ELSE update_job_status_sync(create_job(LedgerOfJobs(n - 1), GoodURL(n), "None"),
                                n, "completed", [completed_at |-> TS]).ledger

QueryEnd(code, detail) ==
    [req EXCEPT !.pc = "done", !.resp = [code |-> code, detail |-> detail]]

\* The stage's call raised: the HTTPException of its except clause.
QueryStageError(stage, exc) ==
    [QueryEnd(500, StageErrorDetail(stage, exc)) EXCEPT !.raised = stage]

\* main.py:145-148 and 174-180: the dependencies are resolved and the
\* three service clients are built; a constructor that raises ends in the
\* catch-all of main.py:259-261.
QueryInit ==
    /\ req.pc = "init"
    /\ \E ok \in BOOLEAN :
         req' = IF ok THEN [req EXCEPT !.pc = "embed"]
                ELSE QueryEnd(500, "Query processing failed")
    /\ ledger' = get_db_session(ledger)
    /\ UNCHANGED <<tasks, points>>

\* main.py:185-189: embed the question.
QueryEmbed ==
    /\ req.pc = "embed"
    /\ \E run \in QueryRuns, response \in EmbedResponses(req.dims) :
         LET e == embed_query(run, response, req.dims)
         IN  req' = IF e.ret = "raise"
                    THEN [QueryStageError("embed", e.exc)
                             EXCEPT !.stages = Append(@, "embed")]
                    ELSE [req EXCEPT !.pc = "validate", !.vector = e.vector,
                                     !.has_vector = TRUE,
                                     !.stages = Append(@, "embed")]
    /\ UNCHANGED <<ledger, tasks, points>>

\* main.py:192-194: the dimension check.
QueryValidate ==
    /\ req.pc = "validate"
    /\ req' = IF InvalidDimension(req.vector)
              THEN QueryEnd(500, "Embedding service returned invalid dimension")
              ELSE [req EXCEPT !.pc = "search"]
    /\ UNCHANGED <<ledger, tasks, points>>

\* main.py:199-207: the vector search, then the no-results outcome.
QuerySearch ==
    /\ req.pc = "search"
    /\ \E order \in {"asc", "desc"}, outcome \in {"ok", "error"} :
         LET r == search(points, req.top_k, req.filters, order, outcome)
             searched == [req EXCEPT !.stages = Append(@, "search"),
                                     !.search_vector = req.vector]
         IN  req' = IF r.ret = "raise"
                    THEN [QueryStageError("search", "Exception")
                             EXCEPT !.stages = searched.stages,
                                    !.search_vector = searched.search_vector]
                    ELSE IF NoResults(r.results)
                    THEN [QueryEnd(404, "No relevant documents found")
                             EXCEPT !.stages = searched.stages,
                                    !.search_vector = searched.search_vector,
                                    !.searched = TRUE]
                    ELSE [searched EXCEPT !.pc = "generate", !.hits = r.results,
                                          !.searched = TRUE]
    /\ UNCHANGED <<ledger, tasks, points>>

\* main.py:212-219 and 223-255: generate the answer, then format the
\* response with one source per hit.
QueryGenerate ==
    /\ req.pc = "generate"
    /\ \E response \in LlmResponses :
         LET g == generate_answer(response)
             called == [req EXCEPT !.stages = Append(@, "generate"),
                                   !.llm = response]
         IN  req' = IF g.ret = "raise"
                    THEN [QueryStageError("generate", g.exc)
                             EXCEPT !.stages = called.stages,
                                    !.llm = called.llm]
                    ELSE [called EXCEPT
                             !.pc = "done",
                             !.resp = [code |-> 200, detail |-> "OK",
                                       answer |-> g.answer,
                                       sources |-> format_sources(req.hits),
                                       chunks_retrieved |-> Len(req.hits),
                                       top_k |-> req.top_k]]
    /\ UNCHANGED <<ledger, tasks, points>>

InitQuery ==
    /\ tasks = <<>>
    /\ \E n \in 0..MaxRequests :
         /\ ledger = LedgerOfJobs(n)
         /\ points = IndexOfJobs(n)
    /\ \E dims \in Dimensions, top_k \in TopKs, filters \in FilterInputs :
         req = [pc |-> "init", dims |-> dims, top_k |-> top_k,
                filters |-> filters, vector |-> 0, has_vector |-> FALSE,
                search_vector |-> 0, searched |-> FALSE, stages |-> <<>>,
                raised |-> "none", llm |-> NoRow,
                hits |-> <<>>, resp |-> NoRow]

NextQuery ==
    \/ QueryInit
    \/ QueryEmbed
    \/ QueryValidate
    \/ QuerySearch
    \/ QueryGenerate

SpecQuery == InitQuery /\ [][NextQuery]_vars

----------------------------------------------------------------------------
(* SpecCollection: collection bootstrap.  Processes ensure the same       *)
(* collection concurrently, each by ensure_qdrant_collection or by         *)
(* QdrantStore.create_collection_if_not_exists, against an index that is   *)
(* reachable or not at every call.  Here `points` is the collection: does  *)
(* it exist, and how many vectors it holds.                                 *)

MaxProcs == 2

Procs == 1..MaxProcs

\* vectorstore.py:108
max_attempts == 6

\* vectorstore.py:145: min(backoff * 2, 10.0)
BackoffCap == 10

\* what a call on an unreachable index raises
UnreachableErrors == {<<"Connection", "refused">>, <<"Read", "timed", "out">>}

\* what create_collection raises for a collection that exists
ConflictErrors ==
    { <<"409", "Conflict", "Collection", "Already", "Exists">>,
      <<"400", "Bad", "Request", "Collection", "already", "exists">> }

\* vectorstore.py:131-132: "already exists" in str(create_exc).lower() or "400" in it
tolerated_create_error(create_exc) ==
    LET error_str == lower(create_exc)
    IN  Contains(<<"already", "exists">>, error_str) \/ Contains(<<"400">>, error_str)

next_backoff_Uncapped(backoff) == backoff * 2

\* vectorstore.py:145
next_backoff(backoff) == Min(backoff * 2, BackoffCap)

\* create_collection of the index: the collection is made, or the call
\* raises because it exists or because the index is unreachable.
create_collection(coll, reachable, conflict, unreachable) ==
    IF ~reachable THEN [coll |-> coll, exc |-> unreachable]
    ELSE IF coll.exists THEN [coll |-> coll, exc |-> conflict]
    ELSE [coll |-> [exists |-> TRUE, vectors |-> 0], exc |-> NoText]

NewProc(path) ==
    [path |-> path, pc |-> "get", tries |-> 0, attempts |-> 0, backoff |-> 1,
     sleeps |-> <<>>, last_error |-> NoText, missing |-> FALSE,
     conflict |-> FALSE, ret |-> "none",
     exc |-> NoText]

ProcReturn(p) == [p EXCEPT !.pc = "done", !.ret = "return"]

\* vectorstore.py:138-145 and 148-150: the attempt failed; count it, sleep,
\* grow the backoff, and leave the loop with the last error after the
\* last attempt.
attempt_failed(p, exc) ==
    LET q == [p EXCEPT !.attempts = @ + 1,
                       !.sleeps = Append(@, p.backoff),
                       !.backoff = next_backoff(p.backoff),
                       !.last_error = exc]
    IN  IF q.attempts < max_attempts
        THEN [q EXCEPT !.pc = "get"]
        ELSE [q EXCEPT !.pc = "done", !.ret = "raise", !.exc = exc]

\* vectorstore.py:111-123: an attempt builds the client and asks for the
\* collection; found, it returns; any exception of get_collection leads to
\* the create call.
EnsureGet(p) ==
    /\ req[p].path = "ensure" /\ req[p].pc = "get"
    /\ \E client \in {"ok", "raise"}, reachable \in BOOLEAN,
          unreachable \in UnreachableErrors :
         LET started == [req[p] EXCEPT !.tries = @ + 1,
                                       !.missing = reachable /\ ~points.exists]
         IN  req' = [req EXCEPT ![p] =
                        IF client = "raise"
                        THEN attempt_failed(started, unreachable)
                        ELSE IF reachable /\ points.exists
                        THEN ProcReturn(started)
                        ELSE [started EXCEPT !.pc = "create"]]
    /\ UNCHANGED <<ledger, tasks, points>>

\* vectorstore.py:124-137: create the collection; an error that says it
\* exists is success, any other error fails the attempt.
EnsureCreate(p) ==
    /\ req[p].path = "ensure" /\ req[p].pc = "create"
    /\ \E reachable \in BOOLEAN, conflict \in ConflictErrors,
          unreachable \in UnreachableErrors :
         LET c == create_collection(points, reachable, conflict, unreachable)
             seen == [req[p] EXCEPT !.conflict = @ \/ c.exc \in ConflictErrors]
         IN  /\ points' = c.coll
             /\ req' = [req EXCEPT ![p] =
                           IF c.exc = NoText \/ tolerated_create_error(c.exc)
                           THEN ProcReturn(seen)
                           ELSE attempt_failed(seen, c.exc)]
    /\ UNCHANGED <<ledger, tasks>>

\* vectorstore.py:35-37: get_collection answered, or raised.
StoreGet(p) ==
    /\ req[p].path = "store" /\ req[p].pc = "get"
    /\ \E reachable \in BOOLEAN :
         req' = [req EXCEPT ![p] =
                    IF reachable /\ points.exists
                    THEN ProcReturn([@ EXCEPT !.tries = 1])
                    ELSE [@ EXCEPT !.pc = "create", !.tries = 1,
                                   !.missing = reachable]]
    /\ UNCHANGED <<ledger, tasks, points>>

\* vectorstore.py:38-43: the except clause creates the collection; what
\* create_collection raises leaves the method.
StoreCreate(p) ==
    /\ req[p].path = "store" /\ req[p].pc = "create"
    /\ \E reachable \in BOOLEAN, conflict \in ConflictErrors,
          unreachable \in UnreachableErrors :
         LET c == create_collection(points, reachable, conflict, unreachable)
             seen == [req[p] EXCEPT !.conflict = @ \/ c.exc \in ConflictErrors]
         IN  /\ points' = c.coll
             /\ req' = [req EXCEPT ![p] =
                           IF c.exc = NoText THEN ProcReturn(seen)
                           ELSE [seen EXCEPT !.pc = "done", !.ret = "raise",
                                             !.exc = c.exc,
                                             !.last_error = c.exc]]
    /\ UNCHANGED <<ledger, tasks>>

InitCollection ==
    /\ ledger = <<>>
    /\ tasks = <<>>
    /\ points \in {[exists |-> FALSE, vectors |-> 0], [exists |-> TRUE, vectors |-> 2]}
    /\ req \in [Procs -> {NewProc("ensure"), NewProc("store")}]

NextCollection ==
    \E p \in Procs :
        \/ EnsureGet(p)
        \/ EnsureCreate(p)
        \/ StoreGet(p)
        \/ StoreCreate(p)

SpecCollection == InitCollection /\ [][NextCollection]_vars

----------------------------------------------------------------------------
(* SpecServe: the request-serving context.  Every handler of main.py is a  *)
(* coroutine of one event loop: a handler runs on the loop's thread from   *)
(* one await to the next, and the loop serves another request only when    *)
(* the running handler awaits or ends.  The query handler calls            *)
(* embed_query, search and generate_answer as plain calls, with no await   *)
(* between its first and its last line, and the retry loop of embed_query  *)
(* sleeps with time.sleep.  Here `req.loop` is the request whose handler   *)
(* holds the loop's thread (0: none) and `req.q` the requests.             *)

NewQuery == [pc |-> "waiting", attempt |-> 0, backoff |-> 1, slept |-> 0, code |-> 0]

\* main.py:145-148: the loop starts the handler of a waiting request when
\* no other handler holds its thread.
ServeAccept(r) ==
    /\ req.q[r].pc = "waiting"
    /\ req.loop = 0
    /\ req' = [req EXCEPT !.loop = r, !.q[r].pc = "embed"]
    /\ UNCHANGED <<ledger, tasks, points>>

\* main.py:186 and embeddings.py:33-58: one invocation of the wrapped call
\* inside _with_retries; it returns, or it raises and the loop gives up or
\* goes to sleep with time.sleep (embeddings.py:49, 57).
ServeEmbedCall(r) ==
    /\ req.q[r].pc = "embed"
    /\ req.loop = r
    /\ \E exc \in RetryOutcomes :
         LET attempt == req.q[r].attempt + 1
             limit == IF is_rate_limit(exc) THEN RateLimitAttempts ELSE OtherAttempts
         IN  req' = [req EXCEPT !.q[r] =
                        IF exc = OK THEN [@ EXCEPT !.pc = "embedded"]
                        ELSE IF attempt >= limit
                        THEN [@ EXCEPT !.pc = "respond", !.attempt = attempt,
                                       !.code = 500]
                        ELSE [@ EXCEPT !.pc = "sleeping", !.attempt = attempt]]
    /\ UNCHANGED <<ledger, tasks, points>>

\* embeddings.py:49-50 and 57-58: time.sleep(backoff) returns and the
\* backoff doubles.
ServeWake(r) ==
    /\ req.q[r].pc = "sleeping"
    /\ req.loop = r
    /\ req' = [req EXCEPT !.q[r].pc = "embed",
                          !.q[r].slept = @ + req.q[r].backoff,
                          !.q[r].backoff = @ * 2]
    /\ UNCHANGED <<ledger, tasks, points>>

\* main.py:192-261: the rest of the handler, down to its response; the
\* handler ends and the loop's thread is free.
ServeFinish(r) ==
    /\ req.q[r].pc \in {"embedded", "respond"}
    /\ req.loop = r
    /\ \E code \in {200, 404, 500} :
         req' = [req EXCEPT !.loop = 0, !.q[r].pc = "done",
                            !.q[r].code = IF req.q[r].pc = "respond" THEN 500
                                          ELSE code]
    /\ UNCHANGED <<ledger, tasks, points>>

ServeStep(r) ==
    \/ ServeAccept(r)
    \/ ServeEmbedCall(r)
    \/ ServeWake(r)
    \/ ServeFinish(r)

InitServe ==
    /\ ledger = <<>>
    /\ tasks = <<>>
    /\ points = <<>>
    /\ req = [loop |-> 0, q |-> [r \in Requests |-> NewQuery]]

NextServe == \E r \in Requests : ServeStep(r)

SpecServe == InitServe /\ [][NextServe]_vars

----------------------------------------------------------------------------
(* SpecChunk: the Chunker on its own.  chunk_text is applied to every text *)
(* of at most MaxTextLen characters over a small alphabet, with every      *)
(* chunk size and overlap of the model.  Here `req` is the call: its       *)
(* arguments and what it returned.                                          *)

MaxTextLen == 6

Alphabet == {"a", ".", " ", "\n"}

Texts == UNION {[1..n -> Alphabet] : n \in 0..MaxTextLen}

ChunkSizes == {4, 5}

ChunkOverlaps == {0, 1, 2}

\* content_processor.py:75: " ".join(body.split()) leaves the text as it is
Normalized(text) == text = str_join(<<" ">>, str_split(text, <<>>))

\* content_processor.py:79-104
ChunkCall ==
    /\ req.pc = "call"
    /\ req' = [req EXCEPT !.pc = "returned",
                          !.chunks = chunk_text(req.text, req.chunk_size,
                                                req.chunk_overlap)]
    /\ UNCHANGED <<ledger, tasks, points>>

InitChunk ==
    /\ ledger = <<>>
    /\ tasks = <<>>
    /\ points = <<>>
    /\ \E text \in Texts, chunk_size \in ChunkSizes, chunk_overlap \in ChunkOverlaps :
         req = [pc |-> "call", text |-> text, chunk_size |-> chunk_size,
                chunk_overlap |-> chunk_overlap, chunks |-> <<>>]

NextChunk == ChunkCall

SpecChunk == InitChunk /\ [][NextChunk]_vars

----------------------------------------------------------------------------
(* SpecEmbedDocs: embed_documents on its own.  The wrapped call embeds the *)
(* texts one by one; each invocation either gets through all of them or    *)
(* fails at one text with a rate-limit or another error.  A vector is      *)
(* named by the invocation that obtained it and the text it embeds.        *)

MaxTexts == 2

\* What one invocation of the wrapped call meets: fail_at = 0 when every
\* text is embedded, else the position of the text whose embed_content
\* call raises exc.
BatchOutcomes(n) ==
    {[fail_at |-> 0, exc |-> OK]}
        \cup [fail_at : 1..n,
              exc : {<<"429", "Too", "Many", "Requests">>, <<"Connection", "reset">>}]

\* embeddings.py:62-73, the invocation number `attempt` of _call: a fresh
\* list, one embed_content call per text in order; the list is returned
\* after the last text, or lost when a call raises.
call_batch(texts, outcome, attempt) ==
    IF outcome.fail_at = 0
    THEN [exc |-> OK,
          embeddings |-> [i \in 1..Len(texts) |-> <<attempt, texts[i]>>]]
    ELSE [exc |-> outcome.exc,
          embeddings |-> [i \in 1..(outcome.fail_at - 1) |-> <<attempt, texts[i]>>]]

\* the same with one list kept across the invocations
embed_texts_Accumulate(texts, outcomes) ==
    LET r == with_retries([a \in DOMAIN outcomes |->
                              call_batch(texts, outcomes[a], a).exc])
        RECURSIVE gathered(_)
        gathered(a) == IF a = 0 THEN <<>>
                       ELSE gathered(a - 1) \o call_batch(texts, outcomes[a], a).embeddings
    IN  [ret |-> r.ret, exc |-> r.exc, calls |-> r.calls,
         vectors |-> IF r.ret = "return" THEN gathered(r.calls) ELSE <<>>]

\* embeddings.py:59-75: _with_retries around _call; what embed_documents
\* returns is what the last invocation of _call returned.
embed_texts(texts, outcomes) ==
    LET r == with_retries([a \in DOMAIN outcomes |->
                              call_batch(texts, outcomes[a], a).exc])
    IN  [ret |-> r.ret, exc |-> r.exc, calls |-> r.calls,
         vectors |-> IF r.ret = "return"
                     THEN call_batch(texts, outcomes[r.calls], r.calls).embeddings
                     ELSE <<>>]

EmbedDocsCall ==
    /\ req.pc = "call"
    /\ req' = [req EXCEPT !.pc = "done",
                          !.result = embed_texts(req.texts, req.outcomes)]
    /\ UNCHANGED <<ledger, tasks, points>>

InitEmbedDocs ==
    /\ ledger = <<>>
    /\ tasks = <<>>
    /\ points = <<>>
    /\ \E n \in 1..MaxTexts :
         \E outcomes \in [1..MaxCalls -> BatchOutcomes(n)] :
            req = [pc |-> "call", texts |-> [i \in 1..n |-> i],
                   outcomes |-> outcomes, result |-> NoRow]

NextEmbedDocs == EmbedDocsCall

SpecEmbedDocs == InitEmbedDocs /\ [][NextEmbedDocs]_vars

----------------------------------------------------------------------------
(* Properties *)

Jobs == DOMAIN ledger
Tasks == DOMAIN tasks

Accepted(r) == req[r].pc = "done" /\ req[r].resp.code = 202

EnqueueFailed(r) ==
    /\ req[r].pc = "done"
    /\ req[r].resp.code = 500
    /\ req[r].resp.detail = "Failed to enqueue ingestion task"

\* the URL has scheme http or https together with a non-empty host
WellFormed(url) ==
    (url.scheme = "http" \/ url.scheme = "https") /\ url.netloc # ""

TasksOfJob(j) == {t \in Tasks : tasks[t].args[1] = j}

\* C1: for a job whose task was enqueued, the status only ever changes by
\* pending -> processing, processing -> completed or processing -> failed
\* (so a completed or failed status never changes again).
C1_StatusTransitions ==
    [][\A j \in Jobs :
         (TasksOfJob(j) # {} /\ ledger'[j].status # ledger[j].status) =>
            <<ledger[j].status, ledger'[j].status>> \in
                { <<"pending", "processing">>,
                  <<"processing", "completed">>,
                  <<"processing", "failed">> }]_vars

\* C2: once the worker has dequeued a job's task and recorded processing,
\* the ledger never holds status pending for that job.
C2_NoPendingAfterDequeue ==
    \A t \in Tasks :
        tasks[t].pc # "queued" => ledger[JobOf(t)].status # "pending"

\* C3: for every job, completed_at is null if and only if the status is
\* pending or processing.
C3_CompletedAtIffTerminal ==
    \A j \in Jobs :
        (ledger[j].completed_at = NULL) <=>
            ledger[j].status \in {"pending", "processing"}

C5_StatusInAllowedSet ==
    \A j \in Jobs :
        ledger[j].status \in {"pending", "processing", "completed", "failed"}

\* C5 witness: an update was refused (it raised) and the table holds rows.
C5_Witness ==
    /\ Len(ledger) = MaxRows
    /\ req[1].pc = "idle"
    /\ req[1].resp # NoRow
    /\ req[1].resp.ret = "raise"

\* C6: an accepted submission has created exactly one row and enqueued
\* exactly one task whose arguments are (the row's job id, the submitted
\* URL); the row is created pending before the task is enqueued, and the
\* response reports that job id with status pending.
C6_AcceptedSubmission ==
    /\ \A r \in Requests :
          req[r].pc = "send_task" =>
             /\ req[r].job \in Jobs
             /\ ledger[req[r].job].status = "pending"
             /\ ledger[req[r].job].url = req[r].url
             /\ TasksOfJob(req[r].job) = {}
    /\ \A t \in Tasks : tasks[t].args[1] \in Jobs
    /\ \A j \in Jobs : Cardinality({r \in Requests : req[r].job = j}) = 1
    /\ \A r \in Requests :
          Accepted(r) =>
             /\ req[r].job \in Jobs
             /\ ledger[req[r].job].url = req[r].url
             /\ TasksOfJob(req[r].job) = {req[r].task}
             /\ tasks[req[r].task].args = <<req[r].job, req[r].url>>
             /\ req[r].resp.job_id = req[r].job
             /\ req[r].resp.status = "pending"

\* C6 witness: two submissions were accepted.
C6_Witness ==
    /\ Accepted(1)
    /\ Accepted(2)
    /\ req[1].job # req[2].job

\* C7: a submission whose URL lacks scheme http/https or a host is
\* rejected and creates no row and no task, so no row and no task ever
\* carries such a URL.
C7_InvalidURLRejected ==
    /\ \A r \in Requests :
          (req[r].pc # "idle" /\ ~WellFormed(req[r].url)) =>
             /\ req[r].pc = "done"
             /\ req[r].resp.code \in {400, 422}
             /\ req[r].job = NoJob
             /\ req[r].task = NoTask
    /\ \A j \in Jobs : WellFormed(ledger[j].url)
    /\ \A t \in Tasks : WellFormed(tasks[t].args[2])
    /\ Len(ledger) = Cardinality({r \in Requests : req[r].job # NoJob})
    /\ Len(tasks) = Cardinality({r \in Requests : req[r].task # NoTask})

\* C7 witness: a submission without a host and one with scheme ftp were
\* both rejected.
C7_Witness ==
    /\ req[1].pc = "done" /\ req[1].url.netloc = ""
    /\ req[2].pc = "done" /\ req[2].url.scheme = "ftp"

\* C8: after a submission is accepted the job's celery_task_id is the id
\* of the task that was enqueued, also after every status update of the
\* worker.
C8_TaskReferenceKept ==
    \A r \in Requests :
        Accepted(r) => ledger[req[r].job].celery_task_id = req[r].task

\* C8 witness: a submission was accepted and the worker has since taken
\* its job to completed.
C8_Witness ==
    \E r \in Requests :
        /\ Accepted(r)
        /\ tasks[req[r].task].pc = "completed"
        /\ ledger[req[r].job].status = "completed"
        /\ ledger[req[r].job].celery_task_id = req[r].task

\* C9: a run in which fetch, clean or chunk raises, or chunking yields no
\* segment, ends with the write of failed with error_message,
\* error_traceback and completed_at set; neither that write nor the write
\* of processing changes chunk_count, and the run makes no embedding call
\* and no upsert.
C9_EarlyFailure ==
    [][\A t \in Tasks :
         LET j == JobOf(t)
         IN  /\ (tasks[t].pc = "queued" /\ tasks'[t].pc = "processing") =>
                   ledger'[j].chunk_count = ledger[j].chunk_count
             /\ (tasks[t].pc = "processing" /\ tasks'[t].pc = "failed"
                   /\ tasks'[t].stage \in {"fetch", "clean", "chunk", "empty"})
                => /\ ledger'[j].status = "failed"
                   /\ ledger'[j].error_message # NoText
                   /\ ledger'[j].error_traceback # NoText
                   /\ ledger'[j].completed_at # NULL
                   /\ ledger'[j].chunk_count = ledger[j].chunk_count
                   /\ tasks'[t].embed_calls = 0
                   /\ tasks'[t].upsert_calls = 0
                   /\ points' = points]_vars

\* C9 witness: one run failed because chunking returned no segment, another
\* because the fetch raised.
C9_Witness ==
    \E t, u \in Tasks :
        /\ tasks[t].pc = "failed" /\ tasks[t].stage = "empty"
        /\ tasks[u].pc = "failed" /\ tasks[u].stage = "fetch"
        /\ ledger[JobOf(t)].status = "failed"
        /\ ledger[JobOf(t)].completed_at = TS

\* C10: a run whose embedding raises after its retries, or whose upsert
\* is refused by the index, ends with the write of failed; after an
\* embedding failure the run makes no upsert.
C10_LateFailure ==
    [][\A t \in Tasks :
         LET j == JobOf(t)
         IN  /\ (tasks[t].pc = "processing" /\ tasks'[t].pc # "processing"
                   /\ (tasks'[t].stage = "embed" \/ tasks'[t].upsert = "error"))
                => /\ tasks'[t].pc = "failed"
                   /\ ledger'[j].status = "failed"
                   /\ points' = points
             /\ (tasks[t].pc = "processing" /\ tasks'[t].stage = "embed")
                => /\ tasks'[t].upsert_calls = 0
                   /\ tasks'[t].upsert = "none"]_vars

\* C10 witness: one run failed in the embedding stage, another in the
\* upsert.
C10_Witness ==
    \E t, u \in Tasks :
        /\ tasks[t].pc = "failed" /\ tasks[t].stage = "embed"
        /\ tasks[u].pc = "failed" /\ tasks[u].stage = "upsert"
        /\ ledger[JobOf(t)].status = "failed"
        /\ ledger[JobOf(u)].status = "failed"

\* C11: whenever a job is completed, its run fetched, cleaned, chunked,
\* embedded and upserted successfully (one fetch answered 200, one
\* embedding call that returned, one accepted upsert, no failed stage)
\* before the completed write, chunk_count is the number of chunks of the
\* run and at least 1, and started_at and completed_at are both set.
C11_CompletedAfterAllStages ==
    \A t \in Tasks :
        LET j == JobOf(t)
        IN  ledger[j].status = "completed" =>
               /\ tasks[t].pc = "completed"
               /\ tasks[t].stage = "none"
               /\ tasks[t].fetches = 1 /\ tasks[t].http_status = "200"
               /\ tasks[t].embed_calls = 1
               /\ tasks[t].upsert_calls = 1 /\ tasks[t].upsert = "ok"
               /\ ledger[j].chunk_count = Len(tasks[t].chunks)
               /\ ledger[j].chunk_count >= 1
               /\ ledger[j].started_at # NULL
               /\ ledger[j].completed_at # NULL

\* C11 witness: one job completed with one chunk, another with two.
C11_Witness ==
    \E t, u \in Tasks :
        /\ ledger[JobOf(t)].status = "completed"
        /\ ledger[JobOf(t)].chunk_count = 1
        /\ ledger[JobOf(u)].status = "completed"
        /\ ledger[JobOf(u)].chunk_count = 2

\* C12: a fetch answered with a status other than 200 makes exactly one
\* HTTP request and fails the run in the fetch stage; the job is written
\* failed with an error_message that contains the status code.
C12_FetchStatusInError ==
    [][\A t \in Tasks :
         (tasks[t].pc = "processing" /\ tasks'[t].pc # "processing"
            /\ tasks'[t].http_status \in {"404", "500"})
         => /\ tasks'[t].pc = "failed"
            /\ tasks'[t].stage = "fetch"
            /\ tasks'[t].fetches = 1
            /\ ledger'[JobOf(t)].status = "failed"
            /\ Contains(<<tasks'[t].http_status>>,
                        ledger'[JobOf(t)].error_message)]_vars

\* C12 witness: a job failed on a fetch answered 404, with 404 in its
\* error_message.
C12_Witness ==
    \E t \in Tasks :
        /\ tasks[t].pc = "failed" /\ tasks[t].http_status = "404"
        /\ tasks[t].fetches = 1
        /\ ledger[JobOf(t)].status = "failed"
        /\ Contains(<<"404">>, ledger[JobOf(t)].error_message)

\* C13: when a job's task has run to completed twice on the same fetched
\* content, the index holds for that job the same set of point ids as
\* after its first run, and the job is completed after each run.
C13_RerunSamePointIds ==
    \A t \in Tasks :
        (req[JobOf(t)].deliveries >= 2 /\ tasks[t].pc = "completed") =>
            /\ ledger[JobOf(t)].status = "completed"
            /\ req[JobOf(t)].ids # {}
            /\ PointIdsOf(JobOf(t)) = req[JobOf(t)].ids

\* C14: an upsert never overwrites a point that belongs to a different
\* job: a point id present in the index keeps the job id of its payload
\* (distinct (job id, chunk index) pairs have distinct point ids).
C14_NoCrossJobOverwrite ==
    [][\A id \in DOMAIN points :
         id \in DOMAIN points' /\ points'[id].job_id = points[id].job_id]_vars

\* C15: under fair scheduling every accepted job eventually has status
\* completed or failed in the ledger, which is what a client polling the
\* status endpoint after the 202 reads.
C15_AcceptedEventuallyTerminal ==
    \A r \in Requests :
        Accepted(r) ~>
            (Accepted(r) /\ ledger[req[r].job].status \in {"completed", "failed"})

AllOutcomes(P(_)) == \A i \in 1..RetryInputLen : req.outcomes[i] # OK /\ P(req.outcomes[i])

IsOther(exc) == ~is_rate_limit(exc)

\* C16: when every attempt fails with a rate-limit error the call is made
\* once and retried 5 times, and when every attempt fails with another
\* error it is made once and retried 3 times, sleeping 1, 2, 4, ...
\* seconds between attempts; then the error of the last attempt is raised.
C16_RetryBudget ==
    req.pc # "call" =>
        /\ AllOutcomes(is_rate_limit) =>
              /\ req.retry.ret = "raise"
              /\ req.retry.calls = 1 + 5
              /\ req.retry.slept = 1 + 2 + 4 + 8 + 16
              /\ req.retry.exc = req.outcomes[req.retry.calls]
        /\ AllOutcomes(IsOther) =>
              /\ req.retry.ret = "raise"
              /\ req.retry.calls = 1 + 3
              /\ req.retry.slept = 1 + 2 + 4
              /\ req.retry.exc = req.outcomes[req.retry.calls]

\* the first k attempts fail with a rate-limit error and the next returns
RateLimitedThenOK(k) ==
    /\ \A i \in 1..k : req.outcomes[i] # OK /\ is_rate_limit(req.outcomes[i])
    /\ req.outcomes[k + 1] = OK

\* C17: for k = 0..3, k consecutive rate-limit failures followed by a
\* success make the call return after k + 1 invocations with no error,
\* having slept 2^k - 1 seconds in total.
C17_BackoffTotal ==
    req.pc # "call" =>
        \A k \in 0..3 :
            RateLimitedThenOK(k) =>
               /\ req.retry.ret = "return"
               /\ req.retry.exc = NoText
               /\ req.retry.calls = k + 1
               /\ req.retry.slept = 2^k - 1

\* C17 witness: three rate-limit failures, then success after 7 seconds
\* of backoff.
C17_Witness ==
    /\ req.pc = "done"
    /\ RateLimitedThenOK(3)
    /\ req.retry.ret = "return"
    /\ req.retry.slept = 7

\* C18: embed_query raises or returns a vector of the configured output
\* dimensionality.
C18_QueryVectorDimension ==
    (req.pc = "done" /\ req.result.ret = "return") =>
        req.result.vector = req.dims

Invoked(stage) == \E i \in 1..Len(req.stages) : req.stages[i] = stage

\* C19: a vector search is only ever issued with a query vector of the
\* configured embedding dimensionality; a query whose vector has another
\* length (an empty one included) ends with a 500 before the search, and a
\* vector of exactly the configured dimensionality is never rejected by
\* the dimension check.
C19_SearchOnlyConfiguredDimension ==
    /\ Invoked("search") => req.search_vector = req.dims
    /\ (req.has_vector /\ req.pc = "done" /\ req.vector # req.dims) =>
          req.resp.code = 500 /\ ~Invoked("search")
    /\ (req.has_vector /\ req.pc = "done" /\ req.vector = req.dims) =>
          req.resp.detail # "Embedding service returned invalid dimension"

\* C20: a query whose vector search returned zero matches ends with 404,
\* not with a 500, and the Answer Generator is not invoked for it.
C20_NoMatchesIsNotFound ==
    (req.pc \in {"generate", "done"} /\ req.searched /\ req.hits = <<>>) =>
        /\ req.pc = "done"
        /\ req.resp.code = 404
        /\ ~Invoked("generate")

\* C20 witness: a query with top_k = 5 against an index holding no
\* matching point ended with 404 after its search.
C20_Witness ==
    /\ req.pc = "done"
    /\ req.top_k = 5
    /\ req.searched /\ req.hits = <<>>
    /\ Invoked("search")
    /\ req.resp.code = 404

\* C21: an embedding, search or generation call that raised ends the query
\* with a 500 whose detail is that stage's own, and the failed stage is the
\* last one the query invoked.
C21_StageFailureDetail ==
    /\ req.raised = "embed" =>
          /\ req.pc = "done" /\ req.resp.code = 500
          /\ req.resp.detail = "Failed to embed question"
          /\ req.stages = <<"embed">>
    /\ req.raised = "search" =>
          /\ req.pc = "done" /\ req.resp.code = 500
          /\ req.resp.detail = "Vector database search failed"
          /\ req.stages = <<"embed", "search">>
    /\ req.raised = "generate" =>
          /\ req.pc = "done" /\ req.resp.code = 500
          /\ req.resp.detail \in
                {"Answer generation failed",
                 "Failed to generate answer due to internal error"}
          /\ req.stages = <<"embed", "search", "generate">>

\* C21 witness: the vector search of a query raised after its embedding
\* succeeded.
C21_Witness ==
    /\ req.pc = "done"
    /\ req.raised = "search"
    /\ req.has_vector
    /\ req.resp.code = 500

\* C22: no step of a query changes the Job Ledger.
C22_QueryLeavesLedger == [][ledger' = ledger]_vars

\* C22 witness: a query answered 200 beside a ledger that holds jobs.
C22_Witness ==
    /\ req.pc = "done"
    /\ req.resp.code = 200
    /\ Len(ledger) = MaxRequests
    /\ \A j \in DOMAIN ledger : ledger[j].status = "completed"

\* C23: a 200 response carries between 1 and top_k sources, one per hit of
\* the search in the order the index returned them (by descending score),
\* and its chunks_retrieved is the number of sources.
C23_SourcesMatchHits ==
    (req.pc = "done" /\ req.resp.code = 200) =>
        LET sources == req.resp.sources
        IN  /\ 1 <= Len(sources)
            /\ Len(sources) <= req.top_k
            /\ Len(sources) = Len(req.hits)
            /\ \A i \in 1..Len(sources) :
                  /\ sources[i].source_url = req.hits[i].source_url
                  /\ sources[i].relevance_score = req.hits[i].score
            /\ \A i, j \in 1..Len(sources) :
                  i < j => sources[i].relevance_score >= sources[j].relevance_score
            /\ req.resp.chunks_retrieved = Len(sources)

\* C23 witness: a 200 response with several sources and top_k = 5.
C23_Witness ==
    /\ req.pc = "done"
    /\ req.resp.code = 200
    /\ req.top_k = 5
    /\ Len(req.resp.sources) > 1

\* the first candidate carries finish reason 2 or SAFETY
FirstCandidateSafety(response) ==
    /\ response.raises = "none"
    /\ response.candidates # <<>>
    /\ response.candidates[1].has_finish_reason
    /\ \/ response.candidates[1].finish_reason.code = <<2>>
       \/ response.candidates[1].finish_reason.name = "SAFETY"

\* C24: when the first candidate of the model's response carries a
\* safety-refusal finish reason, the answer is exactly the refusal
\* sentence.
C24_SafetyRefusal ==
    (req.llm # NoRow /\ FirstCandidateSafety(req.llm)) =>
        /\ req.pc = "done"
        /\ req.resp.code = 200
        /\ req.resp.answer = Refusal

\* C24 witness: a response with finish reason 2 and a raw text was answered
\* with the refusal sentence.
C24_Witness ==
    /\ req.pc = "done"
    /\ req.llm # NoRow
    /\ FirstCandidateSafety(req.llm)
    /\ req.llm.candidates[1].finish_reason.code = <<2>>
    /\ req.llm.text # <<>>
    /\ req.resp.answer = Refusal

\* the response holds no text: the attribute is missing, raises when read,
\* or holds nothing but whitespace
HasNoText(response) ==
    \/ response.text_attr # "value"
    \/ strip(response.text) = <<>>

\* C25: a response that holds no text and is not a safety refusal ends the
\* query with the generation stage's 500, never with a 200.
C25_EmptyResponseIsError ==
    (/\ req.llm # NoRow
     /\ req.llm.raises = "none"
     /\ ~safety_refused(req.llm)
     /\ HasNoText(req.llm)) =>
        /\ req.pc = "done"
        /\ req.resp.code = 500
        /\ req.raised = "generate"

\* C26: a process that found the collection missing and whose create call
\* met the collection made meanwhile by another process finishes
\* successfully, on either create-if-missing path.
C26_AlreadyExistsIsSuccess ==
    \A p \in Procs :
        (req[p].pc = "done" /\ req[p].missing /\ req[p].conflict) =>
            req[p].ret = "return" /\ points.exists

\* C27: ensure_qdrant_collection makes at most 6 attempts; it returns at the
\* first attempt that finds or creates the collection; the sleep after the
\* i-th failed attempt is min(2^(i-1), 10) seconds; after the 6th failed
\* attempt it raises the error of that attempt; and a run against a
\* collection that exists leaves the collection as it is.
C27_Bounds ==
    \A p \in Procs :
        req[p].path = "ensure" =>
            /\ req[p].tries <= max_attempts
            /\ Len(req[p].sleeps) = req[p].attempts
            /\ \A i \in 1..Len(req[p].sleeps) :
                  /\ req[p].sleeps[i] = Min(2^(i - 1), BackoffCap)
                  /\ req[p].sleeps[i] <= 10
            /\ req[p].ret = "return" =>
                  /\ points.exists
                  /\ req[p].attempts = req[p].tries - 1
            /\ req[p].ret = "raise" =>
                  /\ req[p].tries = 6
                  /\ req[p].attempts = 6
                  /\ req[p].exc = req[p].last_error
                  /\ req[p].exc \in UnreachableErrors
            /\ req[p].pc # "done" => req[p].attempts < 6

C28_BackoffDoesNotBlock ==
    \A r, other \in Requests :
        (/\ r # other
         /\ req.q[r].pc = "sleeping"
         /\ req.q[other].pc # "done") => ENABLED ServeStep(other)

\* C29: an update or a get of a job id that has no row, in the
\* asynchronous and the synchronous variant alike, answers None and leaves
\* the ledger as it was, and the status endpoint answers 404 for such an id.
C29_MissingJobIsNone ==
    [][(/\ req'[1].pc = "idle"
        /\ req'[1].resp # req[1].resp
        /\ req'[1].resp.op # "create"
        /\ ~req'[1].resp.known) =>
            /\ ledger' = ledger
            /\ req'[1].resp.ret =
                  IF req'[1].resp.op = "status" THEN "404" ELSE "none"]_vars

\* C29 witness: the status endpoint answered 404 for an id beside the rows
\* of a full ledger.
C29_Witness ==
    /\ req[1].pc = "idle"
    /\ req[1].resp # NoRow
    /\ req[1].resp.op = "status"
    /\ req[1].resp.ret = "404"
    /\ Len(ledger) = MaxRows
    /\ ~req[1].resp.known

\* the last k characters of prev are the first k characters of cur
Overlaps(prev, cur, k) ==
    /\ k <= Len(prev) /\ k <= Len(cur)
    /\ SubSeq(prev, Len(prev) - k + 1, Len(prev)) = SubSeq(cur, 1, k)

\* the texts that chunks concatenate to when each chunk loses an overlap
\* of at most max_overlap characters with its predecessor
RECURSIVE Reconstructions(_, _)
Reconstructions(chunks, max_overlap) ==
    IF chunks = <<>> THEN {<<>>}
    ELSE IF Len(chunks) = 1 THEN {chunks[1]}
    ELSE LET n == Len(chunks)
             front == Reconstructions(SubSeq(chunks, 1, n - 1), max_overlap)
         IN  {t \o Drop(chunks[n], k) :
                 t \in front,
                 k \in {j \in 0..max_overlap : Overlaps(chunks[n - 1], chunks[n], j)}}

\* the character at position i of text lies in an occurrence of a chunk
InSomeChunk(text, chunks, i) ==
    \E c \in 1..Len(chunks), o \in 0..(Len(text) - 1) :
        /\ o < i /\ i <= o + Len(chunks[c])
        /\ IsPrefix(chunks[c], Drop(text, o))

\* C30: for a normalized text, the chunks of chunk_text, each without its
\* overlap with its predecessor, concatenate to the text, and every
\* character of a text longer than chunk_size lies in a chunk.
C30_ChunkRoundTrip ==
    (req.pc = "returned" /\ Normalized(req.text)) =>
        /\ req.text \in Reconstructions(req.chunks, req.chunk_overlap)
        /\ Len(req.text) > req.chunk_size =>
              \A i \in 1..Len(req.text) : InSomeChunk(req.text, req.chunks, i)

\* chunks i.. occur in text one after the other, each starting no earlier
\* than offset `from`
RECURSIVE OccurInOrder(_, _, _, _)
OccurInOrder(text, chunks, i, from) ==
    IF i > Len(chunks) THEN TRUE
    ELSE \E o \in from..(Len(text) - Len(chunks[i])) :
            /\ IsPrefix(chunks[i], Drop(text, o))
            /\ OccurInOrder(text, chunks, i + 1, o)

\* C31: chunk_text returns segments of the text in source order, each at
\* most chunk_size characters long, and no segment for the empty text.
C31_SegmentsBounded ==
    req.pc = "returned" =>
        /\ \A i \in 1..Len(req.chunks) :
              Len(req.chunks[i]) <= req.chunk_size
        /\ OccurInOrder(req.text, req.chunks, 1, 0)
        /\ req.text = <<>> => req.chunks = <<>>

\* C31 witness: a text longer than chunk_size came back as several
\* segments.
C31_Witness ==
    /\ req.pc = "returned"
    /\ Len(req.text) > req.chunk_size
    /\ req.chunk_overlap > 0
    /\ Len(req.chunks) >= 2

\* word-count x 1.3, rounded to the nearest integer
RoundedEstimate(text) == (Len(str_split(text, <<>>)) * 13 + 5) \div 10

RECURSIVE SumRounded(_)
SumRounded(chunks) ==
    IF chunks = <<>> THEN 0
    ELSE RoundedEstimate(Head(chunks)) + SumRounded(Tail(chunks))

\* C32: the total_tokens of a completed job is the sum over the chunks of
\* its run of word-count x 1.3 rounded to the nearest integer.
C32_TotalTokensRounded ==
    \A t \in DOMAIN tasks :
        tasks[t].pc = "completed" =>
            ledger[JobOf(t)].total_tokens = SumRounded(tasks[t].chunks)

\* an update of job j with keywords kwargs took the ledger from `before`
\* to `after`: the other rows and the columns of j that are neither status
\* nor named are as they were
OnlyNamedChanged(before, after, j, kwargs) ==
    /\ DOMAIN after = DOMAIN before
    /\ \A k \in DOMAIN before : k # j => after[k] = before[k]
    /\ \A c \in Columns \ ({"status"} \cup DOMAIN kwargs) :
          after[j][c] = before[j][c]

\* the columns both update variants accept among the keywords of a call
Updatable(kwargs) == DOMAIN kwargs \cap (mapping_fields \cup {"metadata"})

\* the row holds the values the call named
TookEffect(row, kwargs) == \A c \in Updatable(kwargs) : row[c] = kwargs[c]

C34_VariantsAgree ==
    \A j \in DOMAIN ledger, status \in StatusInputs, kwargs \in KwargsInputs :
        update_job_status_commit(ledger, j, ledger[j], status, kwargs)
            = update_job_status_sync(ledger, j, status, kwargs)

\* C35: for every completed job the index holds, for each chunk index
\* below the job's chunk_count, a point whose payload carries the job's id
\* and that chunk index.
C35_LedgerIndexAgree ==
    \A j \in DOMAIN ledger :
        ledger[j].status = "completed" =>
            \A idx \in 0..(ledger[j].chunk_count - 1) :
                \E id \in DOMAIN points :
                    /\ points[id].job_id = j
                    /\ points[id].chunk_index = idx

\* C36: whatever the wrapped call does at each invocation, _with_retries
\* invokes it at most 5 times and ends by returning what the last
\* invocation returned or by raising what it raised; an error that is not
\* a rate-limit error, raised by the third or a later invocation, is raised
\* at once.
C36_RetryTerminates ==
    req.pc # "call" =>
        /\ req.retry.calls \in 1..5
        /\ req.retry.ret \in {"return", "raise"}
        /\ req.retry.ret = "return" => req.outcomes[req.retry.calls] = OK
        /\ req.retry.ret = "raise" =>
              /\ req.outcomes[req.retry.calls] # OK
              /\ req.retry.exc = req.outcomes[req.retry.calls]
        /\ \A k \in 3..req.retry.calls :
              (req.outcomes[k] # OK /\ IsOther(req.outcomes[k])) =>
                  req.retry.calls = k /\ req.retry.ret = "raise"

\* C36 witness: rate-limit errors at the first four invocations, then
\* another error at the fifth, which is raised.
C36_Witness ==
    /\ req.pc = "done"
    /\ \A i \in 1..4 : req.outcomes[i] # OK /\ is_rate_limit(req.outcomes[i])
    /\ req.outcomes[5] # OK /\ IsOther(req.outcomes[5])
    /\ req.retry.calls = 5
    /\ req.retry.ret = "raise"

\* C37: once a submission has answered with the enqueue-failure error, its
\* job is failed with an error message and the queue holds no task of that
\* job.
C37_EnqueueFailureIsFinal ==
    \A r \in Requests :
        EnqueueFailed(r) =>
            /\ ledger[req[r].job].status = "failed"
            /\ ledger[req[r].job].error_message # NoText
            /\ TasksOfJob(req[r].job) = {}

\* C38: embed_documents raises, or it returns one vector per text in the
\* order of the texts, all obtained by its last invocation of the wrapped
\* call (the vectors of a failed invocation are not in the result).
C38_OneVectorPerText ==
    req.pc = "done" =>
        /\ req.result.ret \in {"return", "raise"}
        /\ req.result.ret = "return" =>
              /\ Len(req.result.vectors) = Len(req.texts)
              /\ \A i \in 1..Len(req.texts) :
                    req.result.vectors[i] = <<req.result.calls, req.texts[i]>>

\* C38 witness: the first invocation failed at the second text, after the
\* first text was embedded; the second invocation embedded both texts.
C38_Witness ==
    /\ req.pc = "done"
    /\ Len(req.texts) = 2
    /\ req.outcomes[1].fail_at = 2
    /\ req.outcomes[2].fail_at = 0
    /\ req.result.ret = "return"
    /\ req.result.calls = 2
    /\ Len(req.result.vectors) = 2

====
